---- MODULE Spec2Model ----
(***************************************************************************)
(* SautiAI signal-detection and alerting core.                             *)
(*                                                                         *)
(* Part 1: the rule engine (backend/app/services/rules_service.py and its  *)
(*         CRUD surface backend/app/api/v1/rules.py).                      *)
(* Part 2: the alert store and dispatcher                                  *)
(*         (backend/app/services/alert_service.py, api/v1/alerts.py,       *)
(*         services/transparency_service.py).                              *)
(* Part 3: the TTL caches of crisis detection and of the realtime loop     *)
(*         (services/crisis_detection_service.py, realtime_service.py).    *)
(*                                                                         *)
(* Python's Optional values are written as sequences of length 0 or 1:     *)
(* None is <<>> and a present value v is <<v>>.                            *)
(***************************************************************************)
EXTENDS Integers, Sequences, FiniteSets, TLC

VARIABLES
    now,         \* datetime.utcnow(), in seconds
    uuids,       \* how many uuid4() values have been drawn
    rules,       \* RulesStore._rules of the API's RulesService (an ordered dict)
    rulesFile,   \* data/alert_rules.json
    rulesResp,   \* the last response of the rules API
    alerts,      \* the rows of the table "alerts", in insertion order
    feedback,    \* the rows of the table "citizen_feedback", in insertion order
    responses,   \* how many rows the table "government_responses" holds
    cfgFile,     \* the "alerts" section of data/config.json
    env,         \* settings.SLACK_WEBHOOK_URL and settings.ALERT_WEBHOOK_URL
    posts,       \* the webhook POSTs attempted so far
    alertResp,   \* the last operation on alerts and what it returned
    crisisCache, \* _CRISIS_CACHE: cache_key -> {"signals", "_cached_at"}
    crisisCalls, \* the detect_crisis_signals calls in flight, by task slot
    crisisDb,    \* what a read of citizen_feedback and sentiment_scores returns
    crisisRows,  \* how many rows the table "crisis_signals" holds
    crisisLog,   \* the detect_crisis_signals calls that have returned, in order
    realtimeCache, \* _REALTIME_CACHE
    realtimeDb,  \* what get_updates reads from storage
    realtimeResp, \* what the last get_updates returned
    realtimeCfg, \* ConfigService._cache["alerts"] of the open connection's AlertService
    realtimeRules, \* RulesStore._rules of the open connection's RulesService
    analysis,    \* what the analyzers were last run on and what they returned
    priority,    \* what calculate_priority_score last returned and stored
    redFlagTasks, \* the check_for_red_flags calls of the event loop, in the order scheduled
    realtimeCalls, \* the get_updates calls suspended in create_alert, by connection
    crisisChecks, \* the _periodic_crisis_check tasks created, in order, and how each ran
    lastCrisisCheck \* IngestionService._last_crisis_check, None while the attribute is absent

rulesVars == <<uuids, rules, rulesFile, rulesResp>>

alertVars == <<alerts, feedback, responses, cfgFile, env, posts, alertResp>>

cacheVars == <<crisisCache, crisisCalls, crisisDb, crisisRows, crisisLog,
               realtimeCache, realtimeDb, realtimeResp, realtimeCfg, realtimeRules, analysis, priority>>

taskVars == <<redFlagTasks, realtimeCalls, crisisChecks, lastCrisisCheck>>

None == <<>>

Some(v) == <<v>>

\* Python truthiness of an Optional[str]: None and "" are falsy.
TruthyStr(o) == o # None /\ o[1] # ""

\* Python truthiness of an Optional[int]: None and 0 are falsy.
TruthyInt(o) == o # None /\ o[1] # 0

\* str.lower() on the strings the model uses.
Lower(s) ==
    CASE s = "Health" -> "health"
      [] s = "Nairobi" -> "nairobi"
      [] OTHER -> s

\* dict.get(k, d) on a count map.
DictGet(m, k, d) == IF k \in DOMAIN m THEN m[k] ELSE d

EmptyMap == [k \in {} |-> 0]

(***************************************************************************)
(* Bounds                                                                  *)
(***************************************************************************)
MaxRules == 2

MaxUuid == 3

MaxAlerts == 2

MaxFeedback == 2

MaxResponses == 1

\* the clock of the alert store advances by 12 hours, over a day and a half
AlertTick == 43200

MaxAlertNow == 129600

\* task slots for detect_crisis_signals calls, and calls over a run
MaxSlots == 2

MaxCrisisCalls == 3

\* alerts the realtime feed may have persisted before a further read
MaxRealtimeAlerts == 2

\* the clock of the caches is read 0, 2 and 5 seconds after every multiple of
\* the crisis TTL
ShortTick == 2

MidTick == 3

LongTick == 295

MaxCacheNow == 300

\* Detection cycles of the specification of failing analyzers.
MaxDetectCalls == 1

(***************************************************************************)
(* Part 1.  Rules                                                          *)
(***************************************************************************)
MaxNameLen == 128

\* a name of 129 characters
LongName == "rrrrrrrrrrrrrrrrrrrrrrrrrrrrrrrrrrrrrrrrrrrrrrrrrrrrrrrrrrrrrrrrrrrrrrrrrrrrrrrrrrrrrrrrrrrrrrrrrrrrrrrrrrrrrrrrrrrrrrrrrrrrrrrrrrrrrrrrr"

UntitledRule == "Untitled rule"

\* A request body for RuleIn, the defaults of the optional fields filled in;
\* a missing (or null) name is None.
RuleBody(n, e, s, c, m, ns, nw) ==
    [name |-> n, enabled |-> e, sector |-> s, county |-> c, min_count |-> m,
     notify_slack |-> ns, notify_webhook |-> nw]

BaseBody == RuleBody(Some("r"), TRUE, Some("health"), None, Some(10), FALSE, FALSE)

\* The request bodies sent to the CRUD surface: each family varies a few
\* fields of BaseBody.
CrudBodies ==
    {[BaseBody EXCEPT !.name = n] : n \in {None, Some(""), Some("r"), Some(LongName)}}
    \cup {[BaseBody EXCEPT !.min_count = m] : m \in {None, Some(0)}}
    \cup {[BaseBody EXCEPT !.enabled = FALSE, !.county = Some("Nairobi")]}
    \cup {[BaseBody EXCEPT !.sector = None, !.county = None],
          [BaseBody EXCEPT !.sector = Some("")],
          [BaseBody EXCEPT !.sector = Some(""), !.county = Some("")]}
    \cup {[BaseBody EXCEPT !.notify_slack = TRUE, !.notify_webhook = TRUE]}

\* The request bodies that build the registries rule evaluation is run on.
EvalBodies ==
    {[BaseBody EXCEPT !.enabled = e, !.sector = s, !.county = c, !.min_count = m] :
            e \in BOOLEAN,
            s \in {None, Some(""), Some("health"), Some("Health")},
            c \in {None, Some(""), Some("Nairobi")},
            m \in {None, Some(10)}}
    \cup {[BaseBody EXCEPT !.min_count = m] :
            m \in {Some(0), Some(1), Some(19), Some(20), Some(49), Some(50)}}

\* RuleIn: name required with max_length 128, min_count None or >= 1.
RuleInValid(b) ==
    /\ b.name # None
    /\ Len(b.name[1]) <= MaxNameLen
    /\ (b.min_count = None \/ b.min_count[1] >= 1)

\* RuleIn.model_dump(): the payload handed to RulesService, a dict whose
\* values are Python values (every key present).
ModelDump(b) ==
    [id |-> None, name |-> b.name, enabled |-> b.enabled, sector |-> b.sector,
     county |-> b.county, min_count |-> b.min_count,
     notify_slack |-> b.notify_slack, notify_webhook |-> b.notify_webhook,
     created_at |-> None]

\* AlertRule.from_dict: fresh is the uuid4() drawn when the id is missing,
\* t the time of _utcnow_iso().
FromDict(d, fresh, t) ==
    [id |-> IF d.id # None /\ d.id[1] # 0 THEN d.id[1] ELSE fresh,
     name |-> IF TruthyStr(d.name) THEN d.name[1] ELSE UntitledRule,
     enabled |-> d.enabled,
     sector |-> d.sector,
     county |-> d.county,
     min_count |-> d.min_count,
     notify_slack |-> d.notify_slack,
     notify_webhook |-> d.notify_webhook,
     created_at |-> IF d.created_at # None THEN d.created_at[1] ELSE t]

\* AlertRule.to_dict (dataclasses.asdict).
ToDict(r) ==
    [id |-> Some(r.id), name |-> Some(r.name), enabled |-> r.enabled,
     sector |-> r.sector, county |-> r.county, min_count |-> r.min_count,
     notify_slack |-> r.notify_slack, notify_webhook |-> r.notify_webhook,
     created_at |-> Some(r.created_at)]

(* JSON values: null, true/false, a number, a string.  A uuid and an       *)
(* ISO-8601 timestamp are strings whose text is a function of the number   *)
(* n that stands for them in the model.                                    *)
JNull == [t |-> "null", s |-> "", n |-> 0, b |-> FALSE]

JBool(x) == [t |-> "bool", s |-> "", n |-> 0, b |-> x]

JNum(x) == [t |-> "number", s |-> "", n |-> x, b |-> FALSE]

JStr(x) == [t |-> "string", s |-> x, n |-> 0, b |-> FALSE]

JUuid(x) == [t |-> "string", s |-> "uuid", n |-> x, b |-> FALSE]

JIso(x) == [t |-> "string", s |-> "iso", n |-> x, b |-> FALSE]

JOptStr(o) == IF o = None THEN JNull ELSE JStr(o[1])

JOptNum(o) == IF o = None THEN JNull ELSE JNum(o[1])

\* json.dump of one rule dict.
JsonDumpRule(d) ==
    [id |-> JUuid(d.id[1]), name |-> JOptStr(d.name), enabled |-> JBool(d.enabled),
     sector |-> JOptStr(d.sector), county |-> JOptStr(d.county),
     min_count |-> JOptNum(d.min_count),
     notify_slack |-> JBool(d.notify_slack), notify_webhook |-> JBool(d.notify_webhook),
     created_at |-> JIso(d.created_at[1])]

PyOptStr(j) == IF j.t = "null" THEN None ELSE Some(j.s)

PyOptNum(j) == IF j.t = "null" THEN None ELSE Some(j.n)

\* json.load of one rule object.
JsonLoadRule(j) ==
    [id |-> IF j.id.t = "null" THEN None ELSE Some(j.id.n),
     name |-> PyOptStr(j.name), enabled |-> j.enabled.b,
     sector |-> PyOptStr(j.sector), county |-> PyOptStr(j.county),
     min_count |-> PyOptNum(j.min_count),
     notify_slack |-> j.notify_slack.b, notify_webhook |-> j.notify_webhook.b,
     created_at |-> IF j.created_at.t = "null" THEN None ELSE Some(j.created_at.n)]

NoFile == [exists |-> FALSE, data |-> <<>>]

\* self._rules[key] = rule on an insertion-ordered dict.
RECURSIVE DictSet(_, _, _)
DictSet(rs, key, rule) ==
    IF rs = <<>> THEN <<rule>>
    ELSE IF Head(rs).id = key THEN <<rule>> \o Tail(rs)
    ELSE <<Head(rs)>> \o DictSet(Tail(rs), key, rule)

\* del self._rules[rule_id]
RECURSIVE DictDel(_, _)
DictDel(rs, key) ==
    IF rs = <<>> THEN <<>>
    ELSE IF Head(rs).id = key THEN Tail(rs)
    ELSE <<Head(rs)>> \o DictDel(Tail(rs), key)

RuleIds(rs) == {rs[i].id : i \in 1..Len(rs)}

\* A get that makes up a rule for an unknown id.
StoreGetOrNew(rs, id) ==
    IF id \in RuleIds(rs) THEN Some(CHOOSE r \in {rs[i] : i \in 1..Len(rs)} : r.id = id)
    ELSE Some(FromDict([ModelDump(BaseBody) EXCEPT !.id = Some(id)], id, 0))

\* RulesStore.get
StoreGet(rs, id) ==
    IF id \in RuleIds(rs) THEN Some(CHOOSE r \in {rs[i] : i \in 1..Len(rs)} : r.id = id)
    ELSE None

\* RulesStore._flush: the file is rewritten from the whole registry.
Flush(rs) == [exists |-> TRUE, data |-> [i \in 1..Len(rs) |-> JsonDumpRule(ToDict(rs[i]))]]

\* RulesStore._load: {r["id"]: AlertRule.from_dict(r) for r in raw or []}
RECURSIVE LoadObjects(_, _, _, _)
LoadObjects(acc, data, fresh, t) ==
    IF data = <<>> THEN acc
    ELSE LET d == JsonLoadRule(Head(data))
             r == FromDict(d, fresh, t)
         IN  LoadObjects(DictSet(acc, r.id, r), Tail(data), fresh + 1, t)

Load(file, fresh, t) ==
    IF ~file.exists THEN <<>> ELSE LoadObjects(<<>>, file.data, fresh, t)

\* RulesStore.upsert: set, then flush.
StoreUpsert(rs, rule) ==
    LET rs2 == DictSet(rs, rule.id, rule)
    IN  [rules |-> rs2, file |-> Flush(rs2)]

\* StoreDelete without the flush.
StoreDeleteNoFlush(rs, id) == [rules |-> DictDel(rs, id), file |-> Flush(rs)]

\* RulesStore.delete on a known id: delete, then flush.
StoreDelete(rs, id) ==
    LET rs2 == DictDel(rs, id)
    IN  [rules |-> rs2, file |-> Flush(rs2)]

\* RulesService.create_rule
CreateRule(rs, payload, fresh, t) ==
    StoreUpsert(rs, FromDict([payload EXCEPT !.id = Some(fresh)], fresh, t))

\* RulesService.update_rule on a known id: {**current, **payload, "id": rule_id};
\* the payload of the API carries every RuleIn field and neither id nor created_at.
UpdateRule(rs, id, payload, fresh, t) ==
    LET current == ToDict(StoreGet(rs, id)[1])
        merged == [payload EXCEPT !.id = Some(id), !.created_at = current.created_at]
    IN  StoreUpsert(rs, FromDict(merged, fresh, t))

\* RuleOk with the county condition left out.
RuleOkNoCounty(r, cs, cc) ==
    /\ r.enabled
    /\ ~(/\ TruthyStr(r.sector)
         /\ r.min_count # None
         /\ DictGet(cs, Lower(r.sector[1]), 0) < r.min_count[1])
    /\ ~(r.sector = None /\ r.county = None /\ TruthyInt(r.min_count))

\* evaluate, lines 143-158: does rule r trigger on the two count maps?
RuleOk(r, cs, cc) ==
    LET ok1 == ~(/\ TruthyStr(r.sector)
                 /\ r.min_count # None
                 /\ DictGet(cs, Lower(r.sector[1]), 0) < r.min_count[1])
        ok2 == ok1 /\ ~(/\ TruthyStr(r.county)
                        /\ r.min_count # None
                        /\ DictGet(cc, Lower(r.county[1]), 0) < r.min_count[1])
        ok3 == ok2 /\ ~(r.sector = None /\ r.county = None /\ TruthyInt(r.min_count))
    IN  r.enabled /\ ok3

\* Severity with strict comparisons.
SeverityStrict(mc) ==
    LET m == IF TruthyInt(mc) THEN mc[1] ELSE 0
    IN  IF m > 50 THEN "critical" ELSE IF m > 20 THEN "high" ELSE "medium"

\* evaluate, line 159: (r.min_count or 0) against 50 and 20.
Severity(mc) ==
    LET m == IF TruthyInt(mc) THEN mc[1] ELSE 0
    IN  IF m >= 50 THEN "critical" ELSE IF m >= 20 THEN "high" ELSE "medium"

\* evaluate, lines 160-166: the description, as the list of its parts.
Description(r) ==
    LET parts == (IF TruthyStr(r.sector) THEN <<<<"Sector", r.sector[1]>>>> ELSE <<>>)
                 \o (IF TruthyStr(r.county) THEN <<<<"County", r.county[1]>>>> ELSE <<>>)
    IN  IF parts = <<>> THEN <<<<"Threshold reached", "">>>> ELSE parts

\* evaluate, lines 167-176: the payload of a triggered rule.
RulePayload(r, id, t) ==
    [id |-> id, title |-> r.name, severity |-> Severity(r.min_count),
     description |-> Description(r),
     affected_counties |-> IF TruthyStr(r.county) THEN <<r.county[1]>> ELSE <<>>,
     sector |-> r.sector, created_at |-> t, acknowledged |-> FALSE]

\* The rules of the registry that trigger, in registry order.
Triggered(rs, cs, cc) == SelectSeq(rs, LAMBDA r : RuleOk(r, cs, cc))

\* RulesService.evaluate: one payload per triggered rule, each with a fresh
\* uuid4 and the time of the call.
Evaluate(rs, cs, cc, drawn, t) ==
    LET trig == Triggered(rs, cs, cc)
    IN  [i \in 1..Len(trig) |-> RulePayload(trig[i], drawn + i, t)]

NoData == <<>>

\* The last exchange on the rules API: the request (the path's rule id,
\* whether the body passes RuleIn, the count maps of an evaluation) and the
\* response.  by names, payload by payload, the rule that produced it.
RulesRespOf(op, status, data, id, valid) ==
    [op |-> op, status |-> status, data |-> data, id |-> id, valid |-> valid,
     cs |-> EmptyMap, cc |-> EmptyMap, by |-> <<>>]

\* POST /rules
ApiCreateRule(b) ==
    IF ~RuleInValid(b)
    THEN /\ rulesResp' = RulesRespOf("create", 422, NoData, 0, RuleInValid(b))
         /\ UNCHANGED <<uuids, rules, rulesFile>>
    ELSE /\ Len(rules) < MaxRules
         /\ uuids < MaxUuid
         /\ LET st == CreateRule(rules, ModelDump(b), uuids + 1, now)
            IN  /\ rules' = st.rules
                /\ rulesFile' = st.file
                /\ rulesResp' = RulesRespOf("create", 200, <<st.rules[Len(st.rules)]>>,
                                            0, RuleInValid(b))
         /\ uuids' = uuids + 1

\* PATCH /rules/{rule_id}
ApiUpdateRule(id, b) ==
    IF ~RuleInValid(b)
    THEN /\ rulesResp' = RulesRespOf("update", 422, NoData, id, RuleInValid(b))
         /\ UNCHANGED <<uuids, rules, rulesFile>>
    ELSE IF StoreGet(rules, id) = None
    THEN /\ rulesResp' = RulesRespOf("update", 404, NoData, id, RuleInValid(b))
         /\ UNCHANGED <<uuids, rules, rulesFile>>
    ELSE /\ LET st == UpdateRule(rules, id, ModelDump(b), uuids + 1, now)
            IN  /\ rules' = st.rules
                /\ rulesFile' = st.file
                /\ rulesResp' = RulesRespOf("update", 200, <<StoreGet(st.rules, id)[1]>>,
                                            id, RuleInValid(b))
         /\ UNCHANGED uuids

\* DELETE /rules/{rule_id}
ApiDeleteRule(id) ==
    IF id \in RuleIds(rules)
    THEN /\ LET st == StoreDelete(rules, id)
            IN  /\ rules' = st.rules
                /\ rulesFile' = st.file
         /\ rulesResp' = RulesRespOf("delete", 200, NoData, id, TRUE)
         /\ UNCHANGED uuids
    ELSE /\ rulesResp' = RulesRespOf("delete", 404, NoData, id, TRUE)
         /\ UNCHANGED <<uuids, rules, rulesFile>>

\* POST /rules:eval
ApiEvalRules(cs, cc) ==
    LET out == Evaluate(rules, cs, cc, uuids, now)
        trig == Triggered(rules, cs, cc)
    IN  /\ uuids <= MaxUuid
        /\ uuids' = uuids + Len(out)
        /\ rulesResp' = [RulesRespOf("eval", 200, out, 0, TRUE) EXCEPT
                            !.cs = cs, !.cc = cc,
                            !.by = [i \in 1..Len(trig) |-> trig[i].id]]
        /\ UNCHANGED <<rules, rulesFile>>

\* A process restart: RulesService() is constructed again and loads the file.
RestartRules ==
    /\ rules' = Load(rulesFile, uuids + 1, now)
    /\ rulesResp' = RulesRespOf("restart", 0, NoData, 0, TRUE)
    /\ UNCHANGED <<uuids, rulesFile>>

InitRules ==
    /\ uuids = 0
    /\ rules = <<>>
    /\ rulesFile = NoFile
    /\ rulesResp = RulesRespOf("init", 0, NoData, 0, TRUE)

RuleIdInputs == 1..MaxUuid

SectorMaps == {EmptyMap, "health" :> 15, "health" :> 60, "Health" :> 15}

CountyMaps == {EmptyMap, "nairobi" :> 15, "nairobi" :> 5}

\* A registry built through POST /rules from the bodies of EvalBodies.
RECURSIVE CreateAll(_, _)
CreateAll(rs, bodies) ==
    IF bodies = <<>> THEN rs
    ELSE CreateAll(CreateRule(rs, ModelDump(Head(bodies)), Len(rs) + 1, 0).rules, Tail(bodies))

ValidEvalBodies == {b \in EvalBodies : RuleInValid(b)}

InitEval ==
    /\ now = 0
    /\ \E bodies \in UNION {[1..n -> ValidEvalBodies] : n \in 0..MaxRules} :
          /\ rules = CreateAll(<<>>, bodies)
          /\ rulesFile = (IF bodies = <<>> THEN NoFile ELSE Flush(CreateAll(<<>>, bodies)))
          /\ uuids = Len(bodies)
    /\ rulesResp = RulesRespOf("init", 0, NoData, 0, TRUE)

(***************************************************************************)
(* Part 2.  Alerts                                                         *)
(***************************************************************************)
SecondsPerHour == 3600

\* _check_existing_alert: timedelta(hours=24)
DedupHours == 24

DedupWindow == DedupHours * SecondsPerHour

\* AlertService.red_flag_keywords
CriticalKeywords ==
    <<"collapse", "collapsing", "emergency", "urgent", "dangerous",
      "life-threatening", "death", "died", "fatal", "accident",
      "disaster", "crisis", "outbreak", "epidemic", "violence",
      "attack", "fire", "flood", "landslide">>

HighKeywords ==
    <<"broken", "damaged", "unsafe", "hazardous", "contaminated",
      "polluted", "corruption", "fraud", "theft", "robbery",
      "missing", "lost", "stolen", "abandoned", "neglected">>

MediumKeywords ==
    <<"problem", "issue", "concern", "complaint", "poor",
      "inadequate", "insufficient", "delayed", "late", "slow">>

\* _detect_sector_from_text: sector_keywords, in dict order
SectorKeywords ==
    <<[sector |-> "health", kws |-> {"hospital", "clinic", "doctor", "medicine", "health"}],
      [sector |-> "education", kws |-> {"school", "teacher", "student", "education"}],
      [sector |-> "transport", kws |-> {"road", "traffic", "bus", "transport", "vehicle"}],
      [sector |-> "governance", kws |-> {"government", "minister", "policy", "corruption"}],
      [sector |-> "infrastructure", kws |-> {"water", "electricity", "internet", "housing"}],
      [sector |-> "security", kws |-> {"police", "crime", "safety", "violence"}]>>

(* A feedback text is known by a name and by the set kws of the keywords   *)
(* that occur in its lower-cased form, which is all `keyword in text_lower`*)
(* reads of it.                                                            *)
TextPlain == [id |-> "plain", kws |-> {}]

TextCollapse == [id |-> "collapse", kws |-> {"collapse", "hospital"}]

TextSlow == [id |-> "slow", kws |-> {"slow", "problem"}]

TextMixed == [id |-> "mixed", kws |-> {"problem", "broken", "fire"}]

TextBroken == [id |-> "broken", kws |-> {"broken", "slow"}]

\* The first keyword of the list that occurs in the text, or None.
RECURSIVE FirstMatch(_, _)
FirstMatch(list, text) ==
    IF list = <<>> THEN None
    ELSE IF Head(list) \in text.kws THEN Some(Head(list))
    ELSE FirstMatch(Tail(list), text)

\* The tiers tried from the lowest up.
DetectRedFlagLowestFirst(text) ==
    LET c == FirstMatch(CriticalKeywords, text)
        h == FirstMatch(HighKeywords, text)
        m == FirstMatch(MediumKeywords, text)
    IN  IF m # None THEN [severity |-> Some("medium"), matched |-> m]
        ELSE IF h # None THEN [severity |-> Some("high"), matched |-> h]
        ELSE IF c # None THEN [severity |-> Some("critical"), matched |-> c]
        ELSE [severity |-> None, matched |-> None]

\* check_for_red_flags, lines 71-96: the tier and the matched keyword.
DetectRedFlag(text) ==
    LET c == FirstMatch(CriticalKeywords, text)
        h == FirstMatch(HighKeywords, text)
        m == FirstMatch(MediumKeywords, text)
    IN  IF c # None THEN [severity |-> Some("critical"), matched |-> c]
        ELSE IF h # None THEN [severity |-> Some("high"), matched |-> h]
        ELSE IF m # None THEN [severity |-> Some("medium"), matched |-> m]
        ELSE [severity |-> None, matched |-> None]

RECURSIVE FirstSector(_, _)
FirstSector(table, text) ==
    IF table = <<>> THEN "other"
    ELSE IF Head(table).kws \cap text.kws # {} THEN Head(table).sector
    ELSE FirstSector(Tail(table), text)

\* _detect_sector_from_text
DetectSector(text) == FirstSector(SectorKeywords, text)

\* _generate_alert_title: the severity prefix (the two emoji prefixes are written
\* in letters) and the first sentence of the text.
AlertTitle(text, severity) ==
    <<IF severity = "critical" THEN "CRITICAL: " ELSE "WARNING ", text.id>>

(* A row of "alerts".  affected_counties is a list whose order the code    *)
(* does not fix (list(set(...))), written as a set.  acknowledged_at,      *)
(* resolution_status and response_id are the columns                       *)
(* record_government_response writes.                                      *)
AlertRow(id, type, severity, title, sector, counties, metadata, created, acked) ==
    [id |-> id, alert_type |-> type, severity |-> severity, title |-> title,
     sector |-> sector, affected_counties |-> counties, metadata |-> metadata,
     created_at |-> created, acknowledged |-> acked,
     acknowledged_at |-> None, resolution_status |-> None, response_id |-> None]

\* str.strip() on the URLs the model uses.
Strip(u) == IF u = " " THEN "" ELSE u

\* _notify_channels, lines 283-285: the override, else the static setting.
ResolveUrl(override, static) ==
    IF Strip(override) # "" THEN Strip(override) ELSE Strip(static)

\* _notify_channels, lines 282-292: the senders queued for an alert.
NotifyTasks(alert, override, static) ==
    LET slack == ResolveUrl(override.SLACK_WEBHOOK_URL, static.SLACK_WEBHOOK_URL)
        hook == ResolveUrl(override.ALERT_WEBHOOK_URL, static.ALERT_WEBHOOK_URL)
    IN  (IF slack # ""
         THEN <<[alert |-> alert.id, channel |-> "slack", url |-> slack, payload |-> "text"]>>
         ELSE <<>>)
        \o (IF hook # ""
            THEN <<[alert |-> alert.id, channel |-> "webhook", url |-> hook, payload |-> "alert"]>>
            ELSE <<>>)

(* _notify_channels, lines 293-295.  httpx.AsyncClient has no attribute    *)
(* gather: with a sender queued, evaluating httpx.AsyncClient.gather       *)
(* raises AttributeError before any sender is called, so nothing is        *)
(* POSTed; the callers catch the exception and log it.                     *)
NotifyChannels(alert, override, static) ==
    LET tasks == NotifyTasks(alert, override, static)
    IN  [tasks |-> tasks, posts |-> <<>>, raised |-> tasks # <<>>]

NoOverride == [SLACK_WEBHOOK_URL |-> "", ALERT_WEBHOOK_URL |-> ""]

\* ConfigService.get_alerts_config() of a freshly constructed AlertService.
Override == cfgFile

\* A create_alert that lets the exception of _notify_channels escape to its
\* outer handler: the row stays inserted and None is returned.
CreateAlertUnguarded(st, payload, dbOk, override, static) ==
    IF ~dbOk THEN [alerts |-> st, returned |-> <<>>, tasks |-> <<>>, posts |-> <<>>]
    ELSE LET row == IF payload.id = 0 THEN [payload EXCEPT !.id = Len(st) + 1] ELSE payload
             n == NotifyChannels(row, override, static)
         IN  [alerts |-> Append(st, row),
              returned |-> IF n.raised THEN <<>> ELSE <<row.id>>,
              tasks |-> n.tasks, posts |-> n.posts]

(* AlertService.create_alert on store st: a payload without an id (id 0)   *)
(* gets the id the table assigns; dbOk is false when the insert raises or  *)
(* returns no data.                                                        *)
CreateAlert(st, payload, dbOk, override, static) ==
    IF ~dbOk THEN [alerts |-> st, returned |-> <<>>, tasks |-> <<>>, posts |-> <<>>]
    ELSE LET row == IF payload.id = 0 THEN [payload EXCEPT !.id = Len(st) + 1] ELSE payload
             n == NotifyChannels(row, override, static)
         IN  [alerts |-> Append(st, row), returned |-> <<row.id>>,
              tasks |-> n.tasks, posts |-> n.posts]

\* A lookup whose window excludes the alert that is exactly 24 hours old.
CheckExistingAlertStrict(st, t, lookupOk) ==
    /\ lookupOk
    /\ \E i \in 1..Len(st) :
          /\ st[i].alert_type = Some("red_flag")
          /\ st[i].created_at > t - DedupWindow

\* _check_existing_alert: a red_flag alert created within the trailing 24 hours;
\* False when the query raises.
CheckExistingAlert(st, t, lookupOk) ==
    /\ lookupOk
    /\ \E i \in 1..Len(st) :
          /\ st[i].alert_type = Some("red_flag")
          /\ st[i].created_at >= t - DedupWindow

\* What an operation on alerts returned: the ids of the alerts returned, the
\* senders queued, and for a red-flag check whether a tier matched and whether
\* the lookup of existing alerts succeeded.
AlertRespOf(op, returned, tasks, matched, lookupOk) ==
    [op |-> op, returned |-> returned, tasks |-> tasks, matched |-> matched,
     lookupOk |-> lookupOk]

\* AlertService.check_for_red_flags
CheckForRedFlags(text, location, lookupOk, dbOk) ==
    LET det == DetectRedFlag(text)
    IN  IF det.severity = None
        THEN /\ alertResp' = AlertRespOf("red_flag", <<>>, <<>>, FALSE, TRUE)
             /\ UNCHANGED <<alerts, posts>>
        ELSE IF CheckExistingAlert(alerts, now, lookupOk)
        THEN /\ alertResp' = AlertRespOf("red_flag", <<>>, <<>>, TRUE, lookupOk)
             /\ UNCHANGED <<alerts, posts>>
        ELSE LET payload == AlertRow(0, Some("red_flag"), det.severity[1],
                                     AlertTitle(text, det.severity[1]),
                                     Some(DetectSector(text)),
                                     IF TruthyStr(location) THEN {location[1]} ELSE {},
                                     <<text.id, det.matched[1]>>, now, FALSE)
                 r == CreateAlert(alerts, payload, dbOk, Override, env)
             IN  /\ alerts' = r.alerts
                 /\ posts' = posts \o r.posts
                 /\ alertResp' = AlertRespOf("red_flag", r.returned, r.tasks, TRUE, lookupOk)

\* POST /alerts/test: create_alert with alert_type "test"; created_at is None in
\* the request and create_alert fills in the current time.
ApiTestAlert(severity, dbOk) ==
    LET payload == AlertRow(0, Some("test"), severity, <<"Test Alert", "">>, None, {},
                            <<"test", "">>, now, FALSE)
        r == CreateAlert(alerts, payload, dbOk, Override, env)
    IN  /\ alerts' = r.alerts
        /\ posts' = posts \o r.posts
        /\ alertResp' = AlertRespOf("test", r.returned, r.tasks, FALSE, TRUE)

\* An acknowledgement without the id filter: every row is updated.
ApiAcknowledgeAll(id, dbOk) ==
    /\ alerts' = IF dbOk
                 THEN [i \in 1..Len(alerts) |-> [alerts[i] EXCEPT !.acknowledged = TRUE]]
                 ELSE alerts
    /\ alertResp' = AlertRespOf("ack", IF dbOk /\ id \in 1..Len(alerts) THEN <<id>> ELSE <<>>,
                                <<>>, FALSE, TRUE)
    /\ UNCHANGED posts

\* POST /alerts/{alert_id}/ack: update({"acknowledged": True}).eq("id", alert_id)
ApiAcknowledgeAlert(id, dbOk) ==
    /\ alerts' = IF dbOk
                 THEN [i \in 1..Len(alerts) |->
                          IF alerts[i].id = id THEN [alerts[i] EXCEPT !.acknowledged = TRUE]
                          ELSE alerts[i]]
                 ELSE alerts
    /\ alertResp' = AlertRespOf("ack", IF dbOk /\ id \in 1..Len(alerts) THEN <<id>> ELSE <<>>,
                                <<>>, FALSE, TRUE)
    /\ UNCHANGED posts

\* TransparencyService.record_government_response with issue_type "alert":
\* an unknown alert raises; otherwise a response row is inserted and the alert
\* is marked acknowledged with the response's time, status and id.
RecordGovernmentResponse(id, status) ==
    IF id \notin 1..Len(alerts)
    THEN /\ alertResp' = AlertRespOf("gov_response", <<>>, <<>>, FALSE, TRUE)
         /\ UNCHANGED <<alerts, responses, posts>>
    ELSE /\ responses' = responses + 1
         /\ alerts' = [alerts EXCEPT ![id] =
                          [@ EXCEPT !.acknowledged = TRUE,
                                    !.acknowledged_at = Some(now),
                                    !.resolution_status = Some(status),
                                    !.response_id = Some(responses + 1)]]
         /\ alertResp' = AlertRespOf("gov_response", <<id>>, <<>>, FALSE, TRUE)
         /\ UNCHANGED posts

\* The high keywords tried before the critical ones.
GroupKeyHighFirst(item) == FirstMatch(HighKeywords \o CriticalKeywords, item.text)

\* check_trending_complaints, lines 171-177: the keyword an item is grouped under.
GroupKey(item) == FirstMatch(CriticalKeywords \o HighKeywords, item.text)

\* The keys of keyword_groups, in the order the groups were first filled.
RECURSIVE GroupKeys(_, _)
GroupKeys(items, seen) ==
    IF items = <<>> THEN seen
    ELSE LET k == GroupKey(Head(items))
         IN  IF k = None \/ (\E i \in 1..Len(seen) : seen[i] = k[1])
             THEN GroupKeys(Tail(items), seen)
             ELSE GroupKeys(Tail(items), Append(seen, k[1]))

\* check_trending_complaints, lines 180-206: one alert per group that reaches
\* the threshold, inserted and notified group by group.
RECURSIVE TrendingAlerts(_, _, _, _, _, _, _)
TrendingAlerts(keys, recent, hours, threshold, acc, override, static) ==
    IF keys = <<>> THEN acc
    ELSE LET items == SelectSeq(recent, LAMBDA it : GroupKey(it) = Some(Head(keys)))
             payload == AlertRow(0, Some("trending_issue"),
                                 IF Len(items) >= threshold * 2 THEN "high" ELSE "medium",
                                 <<"Trending Issue", Head(keys)>>,
                                 Some(DetectSector(items[1].text)),
                                 {items[i].location[1] :
                                     i \in {j \in 1..Len(items) : TruthyStr(items[j].location)}},
                                 <<Head(keys), Len(items)>>, acc.t, FALSE)
             r == CreateAlert(acc.alerts, payload, TRUE, override, static)
             acc2 == IF Len(items) >= threshold
                     THEN [alerts |-> r.alerts, returned |-> acc.returned \o r.returned,
                           tasks |-> acc.tasks \o r.tasks, posts |-> acc.posts \o r.posts,
                           t |-> acc.t]
                     ELSE acc
         IN  TrendingAlerts(Tail(keys), recent, hours, threshold, acc2, override, static)

\* AlertService.check_trending_complaints; dbOk is false when a storage call
\* raises, which the method answers with [].
CheckTrendingComplaints(hours, threshold, dbOk) ==
    LET recent == SelectSeq(feedback,
                            LAMBDA it : it.created_at >= now - hours * SecondsPerHour)
        acc0 == [alerts |-> alerts, returned |-> <<>>, tasks |-> <<>>, posts |-> <<>>,
                 t |-> now]
        r == IF ~dbOk \/ recent = <<>> \/ Len(recent) < threshold THEN acc0
             ELSE TrendingAlerts(GroupKeys(recent, <<>>), recent, hours, threshold, acc0,
                                 Override, env)
    IN  /\ alerts' = r.alerts
        /\ posts' = posts \o r.posts
        /\ alertResp' = AlertRespOf("trending", r.returned, r.tasks, FALSE, TRUE)

\* A feedback item is stored (the ingestion pipeline's insert).
IngestFeedback(text, location) ==
    /\ feedback' = Append(feedback, [id |-> Len(feedback) + 1, text |-> text,
                                     location |-> location, created_at |-> now])

\* POST /config/alerts: ConfigService.set_alerts_config
ApiSetAlertsConfig(body) == cfgFile' = body

InitAlerts ==
    /\ alerts = <<>>
    /\ feedback = <<>>
    /\ responses = 0
    /\ cfgFile = NoOverride
    /\ posts = <<>>
    /\ alertResp = AlertRespOf("init", <<>>, <<>>, FALSE, TRUE)

BlankEnv == [SLACK_WEBHOOK_URL |-> "", ALERT_WEBHOOK_URL |-> ""]

(***************************************************************************)
(* Part 3.  The TTL caches of crisis detection and of the realtime feed    *)
(***************************************************************************)
\* _CRISIS_CACHE_TTL_SECONDS
CRISIS_CACHE_TTL_SECONDS == 300

\* _REALTIME_CACHE_TTL_SECONDS
REALTIME_CACHE_TTL_SECONDS == 5

\* get_updates: timedelta(hours=24)
RealtimeWindowHours == 24

\* cache_key = f"crisis_signals_{time_window_hours}_{min_volume}"
CacheKey(time_window_hours, min_volume) ==
    <<"crisis_signals", time_window_hours, min_volume>>

(***************************************************************************)
(* The signal analyzers of CrisisDetectionService                          *)
(***************************************************************************)
\* _analyze_hashtag_intelligence: data["count"] >= 3
MinHashtagCount == 3

\* _MAX_HASHTAGS
MAX_HASHTAGS == 50

\* _MAX_FEEDBACK_ITEMS
MAX_FEEDBACK_ITEMS == 1000

\* feedback_items[:500]
MaxCorpusItems == 500

\* policy_crisis_keywords["policy_generic"]
PolicyGeneric ==
    {"policy", "bill", "legislation", "law", "act", "regulation",
     "proposal", "amendment", "reform", "change"}

\* policy_crisis_keywords["protest_organizing"]
ProtestOrganizing ==
    {"protest", "demonstration", "march", "rally", "occupy",
     "reject", "oppose", "boycott", "strike", "shutdown",
     "tuesday", "thursday", "monday", "weekend", "next week"}

\* policy_crisis_keywords["escalation_signals"]
EscalationSignals ==
    {"violence", "police", "arrest", "tear gas", "water cannon",
     "injured", "hospital", "death", "killed", "shot",
     "parliament", "state house", "riot", "looting"}

(* A text of the window: kws is the set of the keywords of all lists that  *)
(* occur in its lower-cased form and tags the hashtags the pattern #\w+    *)
(* finds in it, in order.                                                  *)
CrisisText(id, kws, tags) == [id |-> id, kws |-> kws, tags |-> tags]

(* An element of feedback_items, lines 129-136.  created_at is Some(s)     *)
(* for a timestamp s seconds on the model's clock and None for a string    *)
(* fromisoformat rejects.                                                  *)
FeedbackItem(text, source, sentiment, created_at) ==
    [text |-> text, source |-> source, sentiment |-> sentiment, created_at |-> created_at]

\* seq[:n]
Take(seq, n) == SubSeq(seq, 1, IF Len(seq) < n THEN Len(seq) ELSE n)

(* Fractions n/d with d > 0 in lowest terms stand for the floats of the    *)
(* analyzers: quotients are exact here, where the floats are rounded to 53 *)
(* bits, which can differ only where a comparison is an exact tie.         *)
Abs(x) == IF x < 0 THEN 0 - x ELSE x

RECURSIVE Gcd(_, _)
Gcd(a, b) == IF b = 0 THEN a ELSE Gcd(b, a % b)

Rat(n, d) == LET g == Gcd(Abs(n), d) IN <<n \div g, d \div g>>

RAdd(a, b) == Rat(a[1] * b[2] + b[1] * a[2], a[2] * b[2])

RSub(a, b) == Rat(a[1] * b[2] - b[1] * a[2], a[2] * b[2])

RMul(a, b) == Rat(a[1] * b[1], a[2] * b[2])

\* a / b for b > 0
RDiv(a, b) == Rat(a[1] * b[2], a[2] * b[1])

RLess(a, b) == a[1] * b[2] < b[1] * a[2]

RMax(a, b) == IF RLess(a, b) THEN b ELSE a

RMin(a, b) == IF RLess(b, a) THEN b ELSE a

RAbs(a) == <<Abs(a[1]), a[2]>>

RECURSIVE RSum(_)
RSum(seq) == IF seq = <<>> THEN Rat(0, 1) ELSE RAdd(Head(seq), RSum(Tail(seq)))

\* sorted(keys)
RECURSIVE Sorted(_)
Sorted(S) ==
    IF S = {} THEN <<>>
    ELSE LET m == CHOOSE x \in S : \A y \in S : x <= y
         IN  <<m>> \o Sorted(S \ {m})

\* {"velocity_score": 0, "velocity_percent": 0}
VelocityDefault == [velocity_score |-> Rat(0, 1), velocity_percent |-> Rat(0, 1)]

\* bucket_size = max(1, time_window_hours // 4)
BucketSize(time_window_hours) ==
    IF time_window_hours \div 4 < 1 THEN 1 ELSE time_window_hours \div 4

\* int(hours_ago // bucket_size) of an item read at time t
BucketOf(item, time_window_hours, t) ==
    (t - item.created_at[1]) \div (BucketSize(time_window_hours) * SecondsPerHour)

(* _analyze_sentiment_velocity, lines 218-262, run at time t: the items    *)
(* with a readable timestamp fall into buckets of a quarter of the window  *)
(* counted back from t; the share of negative items of each bucket, in     *)
(* ascending bucket order; the mean of the last two shares against the     *)
(* mean of the shares before them (the first share, with two buckets).     *)
SentimentVelocity(feedback_items, time_window_hours, t) ==
    LET dated == {i \in DOMAIN feedback_items : feedback_items[i].created_at # None}
        bucket(i) == BucketOf(feedback_items[i], time_window_hours, t)
        keys == Sorted({bucket(i) : i \in dated})
        total(b) == Cardinality({i \in dated : bucket(i) = b})
        negative(b) == Cardinality({i \in dated : /\ bucket(i) = b
                                                  /\ feedback_items[i].sentiment = "negative"})
        bucket_percentages == [k \in DOMAIN keys |-> Rat(negative(keys[k]), total(keys[k]))]
        n == Len(bucket_percentages)
        recent_avg == RDiv(RSum(SubSeq(bucket_percentages, n - 1, n)), Rat(2, 1))
        earlier_avg == IF n > 2
                       THEN RDiv(RSum(SubSeq(bucket_percentages, 1, n - 2)), Rat(n - 2, 1))
                       ELSE bucket_percentages[1]
        velocity_percent == RMul(RDiv(RSub(recent_avg, earlier_avg),
                                      RMax(earlier_avg, Rat(1, 10))),
                                 Rat(100, 1))
        velocity_score == RMin(Rat(1, 1), RDiv(RAbs(velocity_percent), Rat(50, 1)))
    IN  IF feedback_items = <<>> THEN VelocityDefault
        ELSE IF n < 2 THEN VelocityDefault
        ELSE [velocity_score |-> velocity_score, velocity_percent |-> velocity_percent]

(* An analyzer returns Some(result); None would be an exception leaving    *)
(* it.  raises says that its body raises an Exception, which its own       *)
(* except clause turns into the default result.                            *)
AnalyzeSentimentVelocity(feedback_items, time_window_hours, t, raises) ==
    IF raises THEN Some(VelocityDefault)
    ELSE Some(SentimentVelocity(feedback_items, time_window_hours, t))

\* {"total_hashtags": 0, "trending_hashtags": []}
HashtagDefault == [total_hashtags |-> 0, trending_hashtags |-> <<>>]

RECURSIVE AllTags(_)
AllTags(items) ==
    IF items = <<>> THEN <<>> ELSE Head(items).text.tags \o AllTags(Tail(items))

\* The keys of hashtag_counts in insertion order: each hashtag where it
\* occurs first.
FirstSeen(tags) ==
    LET first == Sorted({i \in DOMAIN tags : \A j \in 1..(i - 1) : tags[j] # tags[i]})
    IN  [k \in DOMAIN first |-> tags[first[k]]]

(* list.sort(key=growth_score, reverse=True) is stable: an entry comes     *)
(* after those with a higher score and after the earlier ones with its own *)
(* score.                                                                  *)
SortByGrowth(entries) ==
    LET n == Len(entries)
        before(k) == {j \in 1..n : \/ entries[j].growth_score > entries[k].growth_score
                                   \/ /\ entries[j].growth_score = entries[k].growth_score
                                      /\ j < k}
    IN  [p \in 1..n |-> entries[CHOOSE k \in 1..n : Cardinality(before(k)) = p - 1]]

\* Hashtags counted once per item that carries them.
HashtagIntelligencePerItem(feedback_items) ==
    LET items_to_process == Take(feedback_items, MAX_FEEDBACK_ITEMS)
        tags == AllTags(items_to_process)
        names == FirstSeen(tags)
        count(h) == Cardinality({j \in DOMAIN items_to_process :
                                    \E k \in DOMAIN items_to_process[j].text.tags :
                                        items_to_process[j].text.tags[k] = h})
        sources(h) == {items_to_process[i].source :
                          i \in {j \in DOMAIN items_to_process :
                                    \E k \in DOMAIN items_to_process[j].text.tags :
                                        items_to_process[j].text.tags[k] = h}}
        entry(h) == [hashtag |-> h, count |-> count(h),
                     growth_score |-> count(h) * Cardinality(sources(h))]
        frequent == SelectSeq(names, LAMBDA h : count(h) >= MinHashtagCount)
        trending == SortByGrowth([k \in DOMAIN frequent |-> entry(frequent[k])])
    IN  IF feedback_items = <<>> THEN HashtagDefault
        ELSE [total_hashtags |-> Len(names),
              trending_hashtags |-> Take(trending, MAX_HASHTAGS),
              top_hashtag |-> IF trending = <<>> THEN None ELSE Some(trending[1])]

\* _analyze_hashtag_intelligence, lines 274-315
HashtagIntelligence(feedback_items) ==
    LET items_to_process == Take(feedback_items, MAX_FEEDBACK_ITEMS)
        tags == AllTags(items_to_process)
        names == FirstSeen(tags)
        count(h) == Cardinality({i \in DOMAIN tags : tags[i] = h})
        sources(h) == {items_to_process[i].source :
                          i \in {j \in DOMAIN items_to_process :
                                    \E k \in DOMAIN items_to_process[j].text.tags :
                                        items_to_process[j].text.tags[k] = h}}
        entry(h) == [hashtag |-> h, count |-> count(h),
                     growth_score |-> count(h) * Cardinality(sources(h))]
        frequent == SelectSeq(names, LAMBDA h : count(h) >= MinHashtagCount)
        trending == SortByGrowth([k \in DOMAIN frequent |-> entry(frequent[k])])
    IN  IF feedback_items = <<>> THEN HashtagDefault
        ELSE [total_hashtags |-> Len(names),
              trending_hashtags |-> Take(trending, MAX_HASHTAGS),
              top_hashtag |-> IF trending = <<>> THEN None ELSE Some(trending[1])]

AnalyzeHashtagIntelligence(feedback_items, raises) ==
    IF raises THEN Some(HashtagDefault) ELSE Some(HashtagIntelligence(feedback_items))

\* A crisis signal; its title and description are derived from type and data.
CrisisSignal(type, severity) == [type |-> type, severity |-> severity]

\* _detect_policy_crises, lines 329-366
PolicyCrises(feedback_items) ==
    LET corpus == Take(feedback_items, MaxCorpusItems)
        policy_mentions ==
            Cardinality(UNION {corpus[i].text.kws \cap PolicyGeneric : i \in DOMAIN corpus})
        policy_items == {i \in DOMAIN corpus : corpus[i].text.kws \cap PolicyGeneric # {}}
        negative_count == Cardinality({i \in policy_items : corpus[i].sentiment = "negative"})
        size == Cardinality(policy_items)
    IN  IF feedback_items = <<>> THEN <<>>
        ELSE IF policy_mentions >= 5 /\ size > 0 /\ negative_count * 100 > 70 * size
        THEN <<CrisisSignal("policy_crisis",
                            IF negative_count * 100 > 85 * size THEN "critical" ELSE "high")>>
        ELSE <<>>

\* _detect_policy_crises without its except clause.
DetectPolicyCrisesUnguarded(feedback_items, raises) ==
    IF raises THEN None ELSE Some(PolicyCrises(feedback_items))

DetectPolicyCrises(feedback_items, raises) ==
    IF raises THEN Some(<<>>) ELSE Some(PolicyCrises(feedback_items))

\* _detect_protest_organizing, lines 380-416
ProtestOrganizingSignals(feedback_items) ==
    LET items_to_check == Take(feedback_items, MaxCorpusItems)
        organizing_items ==
            {i \in DOMAIN items_to_check :
                Cardinality(items_to_check[i].text.kws \cap ProtestOrganizing) >= 2}
        size == Cardinality(organizing_items)
    IN  IF feedback_items = <<>> THEN <<>>
        ELSE IF size >= 5
        THEN <<CrisisSignal("protest_organizing", IF size >= 10 THEN "high" ELSE "medium")>>
        ELSE <<>>

DetectProtestOrganizing(feedback_items, raises) ==
    IF raises THEN Some(<<>>) ELSE Some(ProtestOrganizingSignals(feedback_items))

(* risk_score is a float that grows by 0.3 or 0.2 at a time.  It is kept   *)
(* in tenths; ulps is the sign of the difference between the float sum and *)
(* the float literal of that many tenths: of the sums of lines 438-467     *)
(* only 0.4 + 0.2 = 0.6000000000000001 and 0.7 + 0.2 = 0.8999999999999999  *)
(* are not the literal, and both are the last addition.                    *)
Float(tenths, ulps) == [tenths |-> tenths, ulps |-> ulps]

FloatAdd(score, tenths) ==
    IF score.tenths = 4 /\ tenths = 2 THEN Float(6, 1)
    ELSE IF score.tenths = 7 /\ tenths = 2 THEN Float(9, 0 - 1)
    ELSE Float(score.tenths + tenths, 0)

\* score > tenths / 10
FloatGreater(score, tenths) ==
    score.tenths > tenths \/ (score.tenths = tenths /\ score.ulps > 0)

\* The score as it is, not capped.
FloatKeep(score) == score

\* min(1.0, score)
FloatMin1(score) == IF score.tenths > 10 THEN Float(10, 0) ELSE score

\* {"escalation_probability": 0, "risk_factors": []}
EscalationDefault == [escalation_probability |-> Float(0, 0), risk_factors |-> <<>>]

\* _predict_escalation, lines 430-480
Escalation(feedback_items, sentiment_velocity, hashtag_intel) ==
    LET corpus == Take(feedback_items, MaxCorpusItems)
        f1 == RLess(Rat(1, 2), sentiment_velocity.velocity_score)
        f2 == Len(hashtag_intel.trending_hashtags) >= 3
        f3 == Len(feedback_items) > 50
        escalation_keywords_found ==
            Cardinality({i \in DOMAIN corpus : corpus[i].text.kws \cap EscalationSignals # {}})
        f4 == escalation_keywords_found > 5
        negative_count ==
            Cardinality({i \in DOMAIN feedback_items : feedback_items[i].sentiment = "negative"})
        f5 == negative_count * 100 > 80 * Len(feedback_items)
        s1 == IF f1 THEN FloatAdd(Float(0, 0), 3) ELSE Float(0, 0)
        s2 == IF f2 THEN FloatAdd(s1, 2) ELSE s1
        s3 == IF f3 THEN FloatAdd(s2, 2) ELSE s2
        s4 == IF f4 THEN FloatAdd(s3, 3) ELSE s3
        s5 == IF f5 THEN FloatAdd(s4, 2) ELSE s4
    IN  IF feedback_items = <<>> THEN EscalationDefault
        ELSE [escalation_probability |-> FloatMin1(s5),
              risk_score |-> s5,
              risk_factors |->
                  (IF f1 THEN <<"Rapid sentiment deterioration">> ELSE <<>>)
                  \o (IF f2 THEN <<"Multiple trending hashtags">> ELSE <<>>)
                  \o (IF f3 THEN <<"High feedback volume">> ELSE <<>>)
                  \o (IF f4 THEN <<"Escalation language detected">> ELSE <<>>)
                  \o (IF f5 THEN <<"Extremely high negative sentiment">> ELSE <<>>)]

PredictEscalation(feedback_items, sentiment_velocity, hashtag_intel, raises) ==
    IF raises THEN Some(EscalationDefault)
    ELSE Some(Escalation(feedback_items, sentiment_velocity, hashtag_intel))

Analyzers ==
    {"sentiment_velocity", "hashtag_intelligence", "policy_crises",
     "protest_organizing", "escalation"}

(* detect_crisis_signals, lines 138-193, with the analyzers run at time t: *)
(* the four gathered analyses, the signals built from them in the order    *)
(* of lines 155-181, then the escalation prediction and its signal.  The   *)
(* analyzers of the set failing raise inside.  None: an analyzer let its   *)
(* exception out, which line 207 catches.                                  *)
Analyses(feedback_items, time_window_hours, t, failing) ==
    LET v == AnalyzeSentimentVelocity(feedback_items, time_window_hours, t,
                                      "sentiment_velocity" \in failing)
        h == AnalyzeHashtagIntelligence(feedback_items, "hashtag_intelligence" \in failing)
        p == DetectPolicyCrises(feedback_items, "policy_crises" \in failing)
        o == DetectProtestOrganizing(feedback_items, "protest_organizing" \in failing)
        gathered == v # None /\ h # None /\ p # None /\ o # None
        e == IF gathered
             THEN PredictEscalation(feedback_items, v[1], h[1], "escalation" \in failing)
             ELSE None
        n == Len(h[1].trending_hashtags)
    IN  IF e = None THEN None
        ELSE Some([sentiment_velocity |-> v[1],
                   hashtag_intel |-> h[1],
                   escalation_prediction |-> e[1],
                   crisis_signals |->
                       (IF RLess(Rat(7, 10), v[1].velocity_score)
                        THEN <<CrisisSignal("sentiment_velocity", "high")>> ELSE <<>>)
                       \o (IF n > 0
                           THEN <<CrisisSignal("hashtag_trending",
                                               IF n < 3 THEN "medium" ELSE "high")>>
                           ELSE <<>>)
                       \o p[1]
                       \o o[1]
                       \o (IF FloatGreater(e[1].escalation_probability, 6)
                           THEN <<CrisisSignal("escalation_prediction",
                                               IF FloatGreater(e[1].escalation_probability, 8)
                                               THEN "critical" ELSE "high")>>
                           ELSE <<>>)])

(* What detect_crisis_signals reads from storage: the citizen_feedback     *)
(* rows of the window joined with their latest sentiment, lines 103-136.   *)
Repeat(item, n) == [i \in 1..n |-> item]

PlainText == CrisisText("plain", {}, <<>>)

BillText == CrisisText("bill", {"policy", "bill", "law", "act", "reform"}, <<>>)

\* An item posted an hour before the model's clock starts.
HourOld(text, sentiment) == FeedbackItem(text, "twitter", sentiment, Some(0 - SecondsPerHour))

SnapFew == Repeat(HourOld(PlainText, "neutral"), 5)

SnapCalm == Repeat(HourOld(PlainText, "neutral"), 12)

\* Five items about a bill, four of them negative, among twelve.
SnapPolicy ==
    Repeat(HourOld(BillText, "negative"), 4) \o Repeat(HourOld(BillText, "neutral"), 1)
        \o Repeat(HourOld(PlainText, "neutral"), 7)

\* A text about a bill that calls to the streets, names a riot and carries
\* three hashtags.
StormText ==
    CrisisText("storm", {"policy", "bill", "law", "act", "reform", "protest", "march", "riot"},
               <<"#reject", "#occupy", "#bill">>)

\* A text that calls to the streets.
RallyText == CrisisText("rally", {"protest", "march"}, <<"#occupy">>)

\* An item posted the given number of hours before the model's clock starts.
Aged(text, sentiment, hours) ==
    FeedbackItem(text, "twitter", sentiment, Some(0 - hours * SecondsPerHour))

\* Eighteen negative storm items of the last hour after two calm ones of the
\* evening before: every analyzer has a signal.
SnapStorm ==
    Repeat(Aged(StormText, "negative", 1), 18) \o Repeat(Aged(PlainText, "neutral", 19), 2)

\* Two calm items of the last hour after fifty negative storm items of the
\* evening before: every risk factor of the escalation prediction applies.
SnapFlood ==
    Repeat(Aged(PlainText, "neutral", 1), 2) \o Repeat(Aged(StormText, "negative", 19), 50)

\* Half of the last hour's items negative, a quarter of the evening's.
SnapDrift ==
    Repeat(Aged(PlainText, "negative", 1), 2) \o Repeat(Aged(PlainText, "neutral", 1), 2)
        \o Repeat(Aged(PlainText, "negative", 19), 1)
        \o Repeat(Aged(PlainText, "neutral", 19), 3)

\* An item one second short of six hours old when the model's clock starts.
AlmostSixHours(text, sentiment) ==
    FeedbackItem(text, "twitter", sentiment, Some(1 - 6 * SecondsPerHour))

\* Five negative items just inside the latest quarter of a day's window and
\* five calm ones of the last hour.
SnapEdge ==
    Repeat(Aged(PlainText, "neutral", 1), 5) \o Repeat(AlmostSixHours(PlainText, "negative"), 5)

\* A text with the word "collapse", which is on none of the three lists.
CollapseText == CrisisText("collapse", {"collapse"}, <<>>)

\* Thirty items of the last hour, twenty-four of them negative, six of
\* those with the word "collapse".
SnapCollapse ==
    Repeat(Aged(CollapseText, "negative", 1), 6) \o Repeat(Aged(PlainText, "negative", 1), 18)
        \o Repeat(Aged(PlainText, "neutral", 1), 6)

\* Items whose timestamp cannot be read, and one that can.
SnapUndated ==
    Repeat(FeedbackItem(PlainText, "sms", "negative", None), 3)
        \o Repeat(Aged(PlainText, "neutral", 1), 1)

\* Six calls to the streets among twelve items.
SnapRally ==
    Repeat(Aged(RallyText, "neutral", 1), 6) \o Repeat(Aged(PlainText, "neutral", 1), 6)

\* A text with three hashtags and no keyword of any list.
ChorusText == CrisisText("chorus", {}, <<"#reject", "#occupy", "#bill">>)

\* A text that names a riot.
RiotText == CrisisText("riot", {"riot"}, <<>>)

\* A text with two hashtags and no keyword.
DuetText == CrisisText("duet", {}, <<"#reject", "#occupy">>)

\* Fifty-one items of the last hour, forty-one of them negative with three
\* hashtags each: many, angry and tagged, with no change over the window and
\* no escalation keyword.
SnapChorus ==
    Repeat(Aged(ChorusText, "negative", 1), 41) \o Repeat(Aged(PlainText, "neutral", 1), 10)

\* Six negative items of the last hour that name a riot after four calm
\* ones of the evening before.
SnapSurge ==
    Repeat(Aged(RiotText, "negative", 1), 6) \o Repeat(Aged(PlainText, "neutral", 19), 4)

\* Every factor at its boundary: fifty items, forty of them negative, five
\* that name a riot, two hashtags three times each, and two thirds of the
\* last hour's items negative after an evening of negative ones, a change
\* of 25 percent.
SnapBrink ==
    Repeat(Aged(RiotText, "negative", 1), 5) \o Repeat(Aged(DuetText, "negative", 1), 3)
        \o Repeat(Aged(PlainText, "negative", 1), 12)
        \o Repeat(Aged(PlainText, "neutral", 1), 10)
        \o Repeat(Aged(PlainText, "negative", 19), 20)

\* Every factor one item past its boundary.
SnapOver ==
    Repeat(Aged(RiotText, "negative", 1), 6) \o Repeat(Aged(ChorusText, "negative", 1), 3)
        \o Repeat(Aged(PlainText, "neutral", 1), 6)
        \o Repeat(Aged(PlainText, "negative", 19), 36)

\* A text with one hashtag twice, and texts with it and with another once.
EchoText == CrisisText("echo", {}, <<"#kenyanews", "#kenyanews">>)

NewsText == CrisisText("news", {}, <<"#kenyanews">>)

BudgetText == CrisisText("budget", {}, <<"#budget">>)

\* An item of the last hour that came in by SMS.
BySms(text) == FeedbackItem(text, "sms", "neutral", Some(0 - SecondsPerHour))

\* #kenyanews three times in two items, #budget once in each of two.
SnapEcho ==
    <<Aged(EchoText, "neutral", 1), Aged(NewsText, "neutral", 1),
      Aged(BudgetText, "neutral", 1), Aged(BudgetText, "neutral", 1)>>

\* #kenyanews three times from one source, then #budget three times from two.
SnapSources ==
    Repeat(Aged(NewsText, "neutral", 1), 3) \o Repeat(Aged(BudgetText, "neutral", 1), 2)
        \o <<BySms(BudgetText)>>

\* One hashtag more than the list of trending hashtags can hold.
BabelTags ==
    <<"#t01", "#t02", "#t03", "#t04", "#t05", "#t06", "#t07", "#t08",
      "#t09", "#t10", "#t11", "#t12", "#t13", "#t14", "#t15", "#t16",
      "#t17", "#t18", "#t19", "#t20", "#t21", "#t22", "#t23", "#t24",
      "#t25", "#t26", "#t27", "#t28", "#t29", "#t30", "#t31", "#t32",
      "#t33", "#t34", "#t35", "#t36", "#t37", "#t38", "#t39", "#t40",
      "#t41", "#t42", "#t43", "#t44", "#t45", "#t46", "#t47", "#t48",
      "#t49", "#t50", "#t51">>

BabelText == CrisisText("babel", {}, BabelTags)

LastTagText == CrisisText("last", {}, <<"#t51">>)

\* Every one of the 51 hashtags three times, the last of them once more
\* and from a second source.
SnapBabel == Repeat(Aged(BabelText, "neutral", 1), 3) \o <<BySms(LastTagText)>>

\* A detect_crisis_signals call that is not running.
IdleCall ==
    [pc |-> "idle", key |-> <<>>, start |-> 0, after |-> 0, items |-> <<>>,
     signals |-> <<>>, queued |-> 0, cfg |-> NoOverride]

\* _CRISIS_CACHE[cache_key] = {"signals": ..., "_cached_at": now}
CrisisEntry(signals, cached_at) == [signals |-> signals, cached_at |-> cached_at]

\* One finished call: its key, when it started and how many calls had returned
\* by then, when it returned and what, and whether it was served from the
\* cache, read storage, wrote the cache.
CrisisCallLog(c, end, returned, hit, read, wrote) ==
    [key |-> c.key, start |-> c.start, after |-> c.after, end |-> end,
     returned |-> returned, hit |-> hit, read |-> read, wrote |-> wrote]

\* A cache test that still serves an entry whose age equals the TTL.
CrisisFreshInclusive(cached, t) ==
    cached # None /\ t - cached[1].cached_at <= CRISIS_CACHE_TTL_SECONDS

\* detect_crisis_signals, lines 84-96: the entry is served.
CrisisFresh(cached, t) ==
    cached # None /\ t - cached[1].cached_at < CRISIS_CACHE_TTL_SECONDS

\* A call that caches the empty list it returns when the storage read fails
\* or returns fewer than min_volume rows.
DetectCrisisSignalsCachingEmpty(slot, time_window_hours, min_volume, dbOk) ==
    LET key == CacheKey(time_window_hours, min_volume)
        cached == DictGet(crisisCache, key, None)
        c == [IdleCall EXCEPT !.key = key, !.start = now, !.after = Len(crisisLog)]
    IN  /\ crisisCalls[slot].pc = "idle"
        /\ IF CrisisFresh(cached, now)
           THEN /\ crisisLog' = Append(crisisLog,
                                       CrisisCallLog(c, now, cached[1].signals,
                                                     TRUE, FALSE, FALSE))
                /\ UNCHANGED <<crisisCalls, crisisCache>>
           ELSE IF ~dbOk \/ crisisDb = <<>> \/ Len(crisisDb) < min_volume
           THEN /\ crisisLog' = Append(crisisLog,
                                       CrisisCallLog(c, now, <<>>, FALSE, TRUE, FALSE))
                /\ crisisCache' = (key :> Some(CrisisEntry(<<>>, now))) @@ crisisCache
                /\ UNCHANGED crisisCalls
           ELSE /\ crisisCalls' = [crisisCalls EXCEPT ![slot] =
                                      [c EXCEPT !.pc = "gather",
                                                !.items = crisisDb]]
                /\ UNCHANGED <<crisisLog, crisisCache>>
        /\ UNCHANGED <<crisisRows, alerts, posts, analysis>>

(* detect_crisis_signals from the call to its first suspension, lines      *)
(* 81-145: the cache test with the time of the call; on a miss the storage *)
(* read, which ends the call with [] and no cache write when it raises     *)
(* (dbOk false) or returns fewer than min_volume rows; otherwise the call  *)
(* is suspended at asyncio.gather with the rows it read.                   *)
DetectCrisisSignals(slot, time_window_hours, min_volume, dbOk) ==
    LET key == CacheKey(time_window_hours, min_volume)
        cached == DictGet(crisisCache, key, None)
        c == [IdleCall EXCEPT !.key = key, !.start = now, !.after = Len(crisisLog)]
    IN  /\ crisisCalls[slot].pc = "idle"
        /\ IF CrisisFresh(cached, now)
           THEN /\ crisisLog' = Append(crisisLog,
                                       CrisisCallLog(c, now, cached[1].signals,
                                                     TRUE, FALSE, FALSE))
                /\ UNCHANGED crisisCalls
           ELSE IF ~dbOk \/ crisisDb = <<>> \/ Len(crisisDb) < min_volume
           THEN /\ crisisLog' = Append(crisisLog,
                                       CrisisCallLog(c, now, <<>>, FALSE, TRUE, FALSE))
                /\ UNCHANGED crisisCalls
           ELSE /\ crisisCalls' = [crisisCalls EXCEPT ![slot] =
                                      [c EXCEPT !.pc = "gather",
                                                !.items = crisisDb]]
                /\ UNCHANGED crisisLog
        /\ UNCHANGED <<crisisCache, crisisRows, alerts, posts, analysis>>

\* The analyzers have not run.
NoAnalysis == None

\* One run of the analyzers: what they were given and what came out.
AnalysisOf(feedback_items, time_window_hours, t, failing, out) ==
    Some([items |-> feedback_items, hours |-> time_window_hours, at |-> t,
          failing |-> failing, out |-> out])

(* detect_crisis_signals resumed after the analyses, lines 145-203 and     *)
(* _batch_store_crisis_signals, lines 522-568: the analyses ran while the  *)
(* call was suspended, the analyzers of failing raising inside.  With no   *)
(* signal the result is cached under the time the call started and         *)
(* returned; otherwise the signals are inserted into crisis_signals        *)
(* (storeOk false: the insert and its fallback raise, which is logged),    *)
(* the AlertService of the call is constructed, which loads the channel    *)
(* config, their alerts are queued and the call is suspended again.  An    *)
(* exception out of an analyzer ends the call with [] and no cache write.  *)
DetectAfterAnalyses(slot, storeOk, failing) ==
    LET c == crisisCalls[slot]
        out == analysis'[1].out
        signals == out[1].crisis_signals
    IN  /\ c.pc = "gather"
        /\ analysis' = AnalysisOf(c.items, c.key[2], now, failing,
                                  Analyses(c.items, c.key[2], now, failing))
        /\ IF out = None
           THEN /\ crisisLog' = Append(crisisLog,
                                       CrisisCallLog(c, now, <<>>, FALSE, TRUE, FALSE))
                /\ crisisCalls' = [crisisCalls EXCEPT ![slot] = IdleCall]
                /\ UNCHANGED <<crisisCache, crisisRows>>
           ELSE IF signals = <<>>
           THEN /\ crisisCache' = (c.key :> Some(CrisisEntry(signals, c.start))) @@ crisisCache
                /\ crisisLog' = Append(crisisLog,
                                       CrisisCallLog(c, now, signals, FALSE, TRUE, TRUE))
                /\ crisisCalls' = [crisisCalls EXCEPT ![slot] = IdleCall]
                /\ UNCHANGED crisisRows
           ELSE /\ crisisRows' = crisisRows + (IF storeOk THEN Len(signals) ELSE 0)
                /\ crisisCalls' = [crisisCalls EXCEPT ![slot] =
                                      [c EXCEPT !.pc = "alerts", !.signals = signals,
                                                !.queued = now, !.cfg = cfgFile]]
                /\ UNCHANGED <<crisisCache, crisisLog>>
        /\ UNCHANGED <<alerts, posts>>

\* _batch_store_crisis_signals, lines 556-565: the alert of one signal.
CrisisAlert(signal, t) ==
    AlertRow(0, Some("crisis_signal"), signal.severity, <<"signal", signal.type>>,
             None, {}, <<signal.type, "">>, t, FALSE)

\* The queued create_alert calls, run one after the other.
RECURSIVE CreateAlerts(_, _, _, _, _)
CreateAlerts(acc, signals, t, override, static) ==
    IF signals = <<>> THEN acc
    ELSE LET r == CreateAlert(acc.alerts, CrisisAlert(Head(signals), t), TRUE,
                              override, static)
         IN  CreateAlerts([alerts |-> r.alerts, posts |-> acc.posts \o r.posts],
                          Tail(signals), t, override, static)

\* detect_crisis_signals, lines 200-203: the entry carries the time the call started.
CrisisStamp(c) == CrisisEntry(c.signals, c.start)

(* detect_crisis_signals resumed after the alerts, lines 568 and 199-205:  *)
(* the queued alerts have been created, the result is cached under the     *)
(* time the call started, whatever the cache holds by now, and returned.   *)
DetectAfterAlerts(slot) ==
    LET c == crisisCalls[slot]
        r == CreateAlerts([alerts |-> alerts, posts |-> <<>>], c.signals, c.queued,
                          c.cfg, env)
    IN  /\ c.pc = "alerts"
        /\ alerts' = r.alerts
        /\ posts' = posts \o r.posts
        /\ crisisCache' = (c.key :> Some(CrisisStamp(c))) @@ crisisCache
        /\ crisisLog' = Append(crisisLog,
                               CrisisCallLog(c, now, c.signals, FALSE, TRUE, TRUE))
        /\ crisisCalls' = [crisisCalls EXCEPT ![slot] = IdleCall]
        /\ UNCHANGED <<crisisRows, analysis>>

\* Feedback is ingested or ages out of the window: the next read sees snap.
CrisisFeedbackChanges(snap) ==
    /\ snap # crisisDb
    /\ crisisDb' = snap

(* What RealtimeService.get_updates reads: the latest citizen_feedback     *)
(* rows, newest first, and the latest sector_classification rows.          *)
RealtimeSnapshot(fb, classes) == [feedback |-> fb, classes |-> classes]

FeedbackRow(id, location, created_at) ==
    [id |-> id, location |-> location, created_at |-> created_at]

ClassRow(primary_sector, classified_at) ==
    [primary_sector |-> primary_sector, classified_at |-> classified_at]

RtEmpty == RealtimeSnapshot(<<>>, <<>>)

RtQuiet == RealtimeSnapshot(<<FeedbackRow(1, None, 0)>>, <<>>)

RtNairobi ==
    RealtimeSnapshot(<<FeedbackRow(2, Some("Nairobi"), 0), FeedbackRow(1, Some(" "), 0)>>,
                     <<ClassRow(Some("Health"), Some(0)), ClassRow(None, Some(0))>>)

\* get_updates, lines 62-67: (row.get("location") or "").strip().lower()
CountyOf(row) == IF row.location = None THEN "" ELSE Lower(Strip(row.location[1]))

\* get_updates, lines 59-67
CountsByCounty(fb, since) ==
    LET recent == SelectSeq(fb, LAMBDA r : r.created_at >= since)
        keys == {CountyOf(recent[i]) : i \in 1..Len(recent)} \ {""}
    IN  [k \in keys |-> Cardinality({i \in 1..Len(recent) : CountyOf(recent[i]) = k})]

\* get_updates, line 81: (row.get("primary_sector") or "").lower()
SectorOf(row) == IF row.primary_sector = None THEN "" ELSE Lower(row.primary_sector[1])

\* get_updates, lines 74-84
CountsBySector(classes, since) ==
    LET counted == SelectSeq(classes,
                             LAMBDA r : r.classified_at # None /\ r.classified_at[1] >= since)
        keys == {SectorOf(counted[i]) : i \in 1..Len(counted)} \ {""}
    IN  [k \in keys |-> Cardinality({i \in 1..Len(counted) : SectorOf(counted[i]) = k})]

\* RealtimeService.__init__, line 28: self.rules = RulesService() loads the
\* rules file once, when the connection's service is constructed.
ConnectionRules == Load(rulesFile, uuids, now)

\* create_alert on the payload of a triggered rule, which brings its own id
\* and has no alert_type.
RuleAlert(p) ==
    AlertRow(p.id, None, p.severity, <<"rule", p.title>>, p.sector,
             {p.affected_counties[i] : i \in 1..Len(p.affected_counties)},
             <<"", "">>, p.created_at, FALSE)

\* get_updates, lines 89-96: create_alert for every triggered payload, in order.
RECURSIVE PersistAll(_, _, _, _)
PersistAll(acc, payloads, override, static) ==
    IF payloads = <<>> THEN acc
    ELSE LET r == CreateAlert(acc.alerts, RuleAlert(Head(payloads)), TRUE, override, static)
         IN  PersistAll([alerts |-> r.alerts, posts |-> acc.posts \o r.posts,
                         tasks |-> acc.tasks \o r.tasks],
                        Tail(payloads), override, static)

\* get_updates, lines 99-112: the "data" of an update.
UpdateData(fb, triggered, cs, cc) ==
    [new_feedback |-> Len(fb),
     latest |-> IF fb = <<>> THEN None ELSE Some(fb[1].id),
     rule_alerts |-> [i \in 1..Len(triggered) |-> triggered[i].id],
     by_sector |-> cs, by_county |-> cc]

\* What get_updates returned (None, or the data and the timestamp) and what it
\* did: whether the cache was served, the age of the entry it found, whether
\* storage was read, the senders queued for the alerts it persisted.
RealtimeRespOf(returned, hit, age, read, tasks) ==
    [returned |-> returned, hit |-> hit, age |-> age, read |-> read, tasks |-> tasks]

\* get_updates, lines 41-55: the entry is served.
RealtimeFresh(cached, t) ==
    cached # None /\ t - cached[1].cached_at < REALTIME_CACHE_TTL_SECONDS

(* RealtimeService.get_updates.  A fresh entry is returned with the        *)
(* timestamp of this call.  Otherwise storage is read, the rules are       *)
(* evaluated on the counts, every triggered payload is persisted, and the  *)
(* result is cached when there is feedback or a triggered rule.            *)
GetUpdates ==
    LET cached == realtimeCache
        age == IF cached = None THEN None ELSE Some(now - cached[1].cached_at)
        since == now - RealtimeWindowHours * SecondsPerHour
        fb == realtimeDb.feedback
        cc == CountsByCounty(fb, since)
        cs == CountsBySector(realtimeDb.classes, since)
        triggered == Evaluate(realtimeRules, cs, cc, uuids, now)
        r == PersistAll([alerts |-> alerts, posts |-> <<>>, tasks |-> <<>>], triggered,
                        realtimeCfg, env)
        data == UpdateData(fb, triggered, cs, cc)
    IN  IF RealtimeFresh(cached, now)
        THEN /\ realtimeResp' = RealtimeRespOf(Some([data |-> cached[1].data, timestamp |-> now]),
                                               TRUE, age, FALSE, <<>>)
             /\ UNCHANGED <<realtimeCache, alerts, posts, uuids>>
        ELSE /\ uuids' = uuids + Len(triggered)
             /\ alerts' = r.alerts
             /\ posts' = posts \o r.posts
             /\ IF fb # <<>> \/ triggered # <<>>
                THEN /\ realtimeCache' = Some([data |-> data, timestamp |-> now,
                                               cached_at |-> now])
                     /\ realtimeResp' = RealtimeRespOf(Some([data |-> data, timestamp |-> now]),
                                                       FALSE, age, TRUE, r.tasks)
                ELSE /\ realtimeResp' = RealtimeRespOf(None, FALSE, age, TRUE, r.tasks)
                     /\ UNCHANGED realtimeCache

(* A websocket connection is opened: RealtimeService() constructs its      *)
(* RulesService, whose RulesStore loads the rules file once, and its       *)
(* AlertService, whose ConfigService loads the channel config once.        *)
RealtimeConnect ==
    /\ realtimeCfg' = cfgFile
    /\ realtimeRules' = ConnectionRules

\* Feedback is ingested and classified: the next read sees snap.
RealtimeFeedbackChanges(snap) ==
    /\ snap # realtimeDb
    /\ realtimeDb' = snap

(***************************************************************************)
(* Part 4.  Priority scores                                                *)
(***************************************************************************)
\* _calculate_urgency_weight: critical_keywords
UrgencyCritical ==
    {"emergency", "urgent", "immediate", "critical", "life-threatening",
     "dangerous", "collapse", "accident", "death", "fatal"}

\* _calculate_urgency_weight: high_keywords
UrgencyHigh ==
    {"broken", "damaged", "unsafe", "hazardous", "problem", "issue", "concern", "complaint"}

\* _calculate_sentiment_weight
SentimentWeight(sentiment) ==
    IF ~TruthyStr(sentiment) THEN 10
    ELSE IF sentiment[1] = "negative" THEN 25
    ELSE IF sentiment[1] = "positive" THEN 5
    ELSE 10

\* _calculate_urgency_weight
UrgencyWeight(text) ==
    IF text.kws \cap UrgencyCritical # {} THEN 25
    ELSE IF text.kws \cap UrgencyHigh # {} THEN 15
    ELSE 5

\* _calculate_volume_weight: similar is Some(count) of the rows the query
\* counts, None when the query raises.
VolumeWeight(similar) ==
    IF similar = None THEN 5
    ELSE IF similar[1] >= 10 THEN 20
    ELSE IF similar[1] >= 5 THEN 15
    ELSE IF similar[1] >= 2 THEN 10
    ELSE 5

\* _calculate_sector_criticality
SectorCriticality(sector) ==
    IF ~TruthyStr(sector) THEN 5
    ELSE IF sector[1] \in {"health", "security"} THEN 15
    ELSE IF sector[1] = "infrastructure" THEN 12
    ELSE IF sector[1] = "governance" THEN 10
    ELSE IF sector[1] \in {"education", "transport"} THEN 8
    ELSE IF sector[1] = "economy" THEN 7
    ELSE IF sector[1] = "environment" THEN 6
    ELSE 5

\* _calculate_time_decay: age is Some(seconds) for the age of the feedback
\* row and None when there is no such row; lookupOk false: the query raises.
TimeDecay(age, lookupOk) ==
    IF ~lookupOk \/ age = None THEN 5
    ELSE IF age[1] < SecondsPerHour THEN 10
    ELSE IF age[1] < 6 * SecondsPerHour THEN 8
    ELSE IF age[1] < 24 * SecondsPerHour THEN 6
    ELSE IF age[1] < 72 * SecondsPerHour THEN 4
    ELSE 2

\* A threshold test that leaves a score of exactly 80 at high.
DeterminePriorityLevelAbove(score) ==
    IF score > 80 THEN "critical"
    ELSE IF score >= 60 THEN "high"
    ELSE IF score >= 40 THEN "medium"
    ELSE "low"

\* _determine_priority_level
DeterminePriorityLevel(score) ==
    IF score >= 80 THEN "critical"
    ELSE IF score >= 60 THEN "high"
    ELSE IF score >= 40 THEN "medium"
    ELSE "low"

\* calculate_priority_score has not been called.
NoPriority == None

(* calculate_priority_score: the five weights, all whole numbers, their    *)
(* sum cut to 0..100 and its level; the insert into priority_scores, whose *)
(* failure is logged (storeOk false).  text is None for a text that is not *)
(* a string: text.lower() raises and line 101 returns the fallback.        *)
CalculatePriorityScore(text, sentiment, sector, similar, age, lookupOk, storeOk) ==
    LET score_components ==
            [sentiment |-> SentimentWeight(sentiment),
             urgency_keywords |-> UrgencyWeight(text[1]),
             volume_trend |-> VolumeWeight(similar),
             sector_criticality |-> SectorCriticality(sector),
             time_decay |-> TimeDecay(age, lookupOk)]
        total_score == score_components.sentiment + score_components.urgency_keywords
                       + score_components.volume_trend + score_components.sector_criticality
                       + score_components.time_decay
        normalized_score == IF total_score < 0 THEN 0
                            ELSE IF total_score > 100 THEN 100 ELSE total_score
    IN  priority' =
            IF text = None
            THEN Some([priority_score |-> 50, priority_level |-> "medium",
                       score_breakdown |-> None, error |-> TRUE, stored |-> FALSE])
            ELSE Some([priority_score |-> normalized_score,
                       priority_level |-> DeterminePriorityLevel(normalized_score),
                       score_breakdown |-> Some(score_components), error |-> FALSE,
                       stored |-> storeOk])

InitCache ==
    /\ crisisCache = EmptyMap
    /\ crisisCalls = [slot \in 1..MaxSlots |-> IdleCall]
    /\ crisisDb = SnapFew
    /\ crisisRows = 0
    /\ crisisLog = <<>>
    /\ realtimeCache = None
    /\ realtimeDb = RtEmpty
    /\ realtimeResp = RealtimeRespOf(None, FALSE, None, FALSE, <<>>)
    /\ realtimeCfg = NoOverride
    /\ realtimeRules = ConnectionRules
    /\ analysis = NoAnalysis
    /\ priority = NoPriority

(***************************************************************************)
(* Part 5: the coroutines of the ingestion pipeline                        *)
(* (backend/app/services/ingestion.py): the red-flag checks of stored      *)
(* items and the throttled crisis check.  The event loop runs one          *)
(* coroutine at a time and switches only where a coroutine suspends.       *)
(***************************************************************************)
MaxRedFlagTasks == 3

\* A check_for_red_flags call the event loop holds: its arguments, when it
\* was scheduled and, once it has run, its place in the run order, the time
\* and the ids it returned.
RedFlagTask(text, location, t) ==
    [text |-> text, location |-> location, scheduled |-> t, ran |-> None]

RedFlagRun(order, t, returned) == Some([order |-> order, at |-> t, returned |-> returned])

RedFlagsRun == {i \in 1..Len(redFlagTasks) : redFlagTasks[i].ran # None}

\* IngestionService._check_red_flags, lines 504-509, of an ingestion
\* coroutine that has an item stored and has not yet reached the call.
ScheduleRedFlagCheck(text, location) ==
    /\ Len(redFlagTasks) < MaxRedFlagTasks
    /\ redFlagTasks' = Append(redFlagTasks, RedFlagTask(text, location, now))
    /\ UNCHANGED <<alerts, posts, alertResp>>

(* A check whose lookup of existing alerts (line 102) ran before the other *)
(* coroutines' latest inserts: it saw only the first k rows of the table.  *)
RunRedFlagCheckSuspended(i, dbOk) ==
    \E k \in 0..Len(alerts) :
        LET task == redFlagTasks[i]
            det == DetectRedFlag(task.text)
            payload == AlertRow(0, Some("red_flag"), det.severity[1],
                                AlertTitle(task.text, det.severity[1]),
                                Some(DetectSector(task.text)),
                                IF TruthyStr(task.location) THEN {task.location[1]} ELSE {},
                                <<task.text.id, det.matched[1]>>, now, FALSE)
            r == IF det.severity = None \/ CheckExistingAlert(SubSeq(alerts, 1, k), now, TRUE)
                 THEN [alerts |-> alerts, returned |-> <<>>, tasks |-> <<>>, posts |-> <<>>]
                 ELSE CreateAlert(alerts, payload, dbOk, Override, env)
        IN  /\ i \in 1..Len(redFlagTasks)
            /\ task.ran = None
            /\ alerts' = r.alerts
            /\ posts' = posts \o r.posts
            /\ alertResp' = AlertRespOf("red_flag", r.returned, r.tasks,
                                        det.severity # None, TRUE)
            /\ redFlagTasks' = [redFlagTasks EXCEPT ![i].ran =
                                   RedFlagRun(Cardinality(RedFlagsRun) + 1, now, r.returned)]

(* The event loop runs a scheduled check: check_for_red_flags, lines       *)
(* 70-135, with its storage lookup succeeding.  _check_existing_alert and  *)
(* _detect_sector_from_text await nothing and the storage client is        *)
(* synchronous, so the lookup of line 102 and the insert of line 125 run   *)
(* in one step of the loop; the coroutine can suspend only in              *)
(* _notify_channels, after the insert.                                     *)
RunRedFlagCheck(i, dbOk) ==
    /\ i \in 1..Len(redFlagTasks)
    /\ redFlagTasks[i].ran = None
    /\ CheckForRedFlags(redFlagTasks[i].text, redFlagTasks[i].location, TRUE, dbOk)
    /\ redFlagTasks' = [redFlagTasks EXCEPT ![i].ran =
                           RedFlagRun(Cardinality(RedFlagsRun) + 1, now, alertResp'.returned)]

MaxConnections == 2

\* A connection's get_updates call: not running, or suspended in the
\* create_alert of its first triggered payload with what it has computed.
IdleUpdate == [pc |-> "idle"]

(* get_updates of a connection, lines 36-94, up to the point where the     *)
(* create_alert of line 94 suspends.  The insert of the first payload has  *)
(* run; _notify_channels has queued a sender (a channel is configured) and *)
(* entered "async with httpx.AsyncClient", where the build's client may    *)
(* hand control to the event loop.  The cache is written only at line 116. *)
GetUpdatesSuspends(conn) ==
    LET cached == realtimeCache
        age == IF cached = None THEN None ELSE Some(now - cached[1].cached_at)
        since == now - RealtimeWindowHours * SecondsPerHour
        fb == realtimeDb.feedback
        cc == CountsByCounty(fb, since)
        cs == CountsBySector(realtimeDb.classes, since)
        triggered == Evaluate(realtimeRules, cs, cc, uuids, now)
        first == CreateAlert(alerts, RuleAlert(Head(triggered)), TRUE, realtimeCfg, env)
    IN  /\ realtimeCalls[conn].pc = "idle"
        /\ ~RealtimeFresh(cached, now)
        /\ triggered # <<>>
        /\ first.tasks # <<>>
        /\ uuids' = uuids + Len(triggered)
        /\ alerts' = first.alerts
        /\ posts' = posts \o first.posts
        /\ realtimeCalls' = [realtimeCalls EXCEPT ![conn] =
                                [pc |-> "persisting", start |-> now, age |-> age,
                                 rest |-> Tail(triggered), tasks |-> first.tasks,
                                 data |-> UpdateData(fb, triggered, cs, cc)]]
        /\ UNCHANGED <<realtimeCache, realtimeResp>>

(* The suspended get_updates resumes, lines 94-118: the remaining payloads *)
(* are persisted and the result is cached under the time the call started. *)
GetUpdatesResumes(conn) ==
    LET c == realtimeCalls[conn]
        r == PersistAll([alerts |-> alerts, posts |-> <<>>, tasks |-> c.tasks], c.rest,
                        realtimeCfg, env)
    IN  /\ c.pc = "persisting"
        /\ alerts' = r.alerts
        /\ posts' = posts \o r.posts
        /\ realtimeCache' = Some([data |-> c.data, timestamp |-> c.start,
                                  cached_at |-> c.start])
        /\ realtimeResp' = RealtimeRespOf(Some([data |-> c.data, timestamp |-> c.start]),
                                          FALSE, c.age, TRUE, r.tasks)
        /\ realtimeCalls' = [realtimeCalls EXCEPT ![conn] = IdleUpdate]
        /\ UNCHANGED uuids

MaxCrisisChecks == 3

SecondsPerMinute == 60

\* _periodic_crisis_check, line 475: only check every 10 minutes.
CrisisCheckMinutes == 10

\* _periodic_crisis_check, line 471: the first check is allowed.
CrisisCheckInitialMinutes == 15

\* A _periodic_crisis_check task: when it was created and, once it has run,
\* when, and whether it started a detection.
CrisisCheckTask(t) == [created |-> t, ran |-> None]

CrisisCheckRun(t, started) == Some([at |-> t, started |-> started])

\* _trigger_analysis, line 461: asyncio.create_task(self._periodic_crisis_check())
TriggerAnalysis ==
    /\ Len(crisisChecks) < MaxCrisisChecks
    /\ crisisChecks' = Append(crisisChecks, CrisisCheckTask(now))
    /\ UNCHANGED lastCrisisCheck

\* _periodic_crisis_check, lines 470-471: the attribute is created on first use.
LastCrisisCheck(t) ==
    IF lastCrisisCheck = None THEN t - CrisisCheckInitialMinutes * SecondsPerMinute
    ELSE lastCrisisCheck[1]

\* _periodic_crisis_check, lines 474-475.
Throttled(last, t) == t - last < CrisisCheckMinutes * SecondsPerMinute

\* A check that leaves the timestamp as it found it when it starts a detection.
CrisisCheckStampKept(last, t) == Some(last)

\* _periodic_crisis_check, line 478: the timestamp a check that passes sets.
CrisisCheckStamp(last, t) == Some(t)

(* The event loop runs a _periodic_crisis_check task, lines 466-484: the   *)
(* throttle test and the assignment of the timestamp await nothing, and    *)
(* detect_crisis_signals is then called and runs to its first suspension   *)
(* or to its return.  What follows the detection (lines 486-499) notifies  *)
(* stakeholders and writes to the table government_alerts only.            *)
PeriodicCrisisCheck(i, slot, dbOk) ==
    LET last == LastCrisisCheck(now)
    IN  /\ i \in 1..Len(crisisChecks)
        /\ crisisChecks[i].ran = None
        /\ IF Throttled(last, now)
           THEN /\ lastCrisisCheck' = Some(last)
                /\ crisisChecks' = [crisisChecks EXCEPT ![i].ran = CrisisCheckRun(now, FALSE)]
                /\ UNCHANGED <<crisisCalls, crisisLog, crisisCache, crisisRows, alerts, posts,
                               analysis>>
           ELSE /\ lastCrisisCheck' = CrisisCheckStamp(last, now)
                /\ crisisChecks' = [crisisChecks EXCEPT ![i].ran = CrisisCheckRun(now, TRUE)]
                /\ DetectCrisisSignals(slot, 24, 10, dbOk)

InitTasks ==
    /\ redFlagTasks = <<>>
    /\ realtimeCalls = [conn \in 1..MaxConnections |-> IdleUpdate]
    /\ crisisChecks = <<>>
    /\ lastCrisisCheck = None

(***************************************************************************)
(* Specifications                                                          *)
(***************************************************************************)
vars == <<now, uuids, rules, rulesFile, rulesResp,
          alerts, feedback, responses, cfgFile, env, posts, alertResp,
          crisisCache, crisisCalls, crisisDb, crisisRows, crisisLog,
          realtimeCache, realtimeDb, realtimeResp, realtimeCfg, realtimeRules, analysis, priority, taskVars>>

\* What the rules API leaves alone.
notRules == <<now, alertVars, cacheVars, taskVars>>

Init ==
    /\ now = 0
    /\ InitRules
    /\ InitAlerts
    /\ InitTasks
    /\ InitCache
    /\ env = BlankEnv

Next ==
    \/ \E b \in CrudBodies : ApiCreateRule(b) /\ UNCHANGED notRules
    \/ \E id \in RuleIdInputs, b \in CrudBodies : ApiUpdateRule(id, b) /\ UNCHANGED notRules
    \/ \E id \in RuleIdInputs : ApiDeleteRule(id) /\ UNCHANGED notRules
    \/ \E cs \in {EmptyMap, "health" :> 15} : ApiEvalRules(cs, EmptyMap) /\ UNCHANGED notRules
    \/ RestartRules /\ UNCHANGED notRules

\* The rule CRUD surface with its JSON persistence.
Spec == Init /\ [][Next]_vars

InitEvalSpec ==
    /\ InitEval
    /\ InitAlerts
    /\ InitTasks
    /\ InitCache
    /\ env = BlankEnv

NextEval ==
    \E cs \in SectorMaps, cc \in CountyMaps : ApiEvalRules(cs, cc) /\ UNCHANGED notRules

\* Rule evaluation over the registries the CRUD surface builds.
SpecEval == InitEvalSpec /\ [][NextEval]_vars

RedFlagTexts == {TextPlain, TextCollapse, TextSlow}

FeedbackTexts == {TextCollapse, TextMixed}

Locations == {None, Some("Nairobi")}

Envs == {BlankEnv, [SLACK_WEBHOOK_URL |-> "https://hooks.slack/env", ALERT_WEBHOOK_URL |-> ""]}

ConfigBodies ==
    {NoOverride,
     [SLACK_WEBHOOK_URL |-> " ", ALERT_WEBHOOK_URL |-> "https://hook/cfg"],
     [SLACK_WEBHOOK_URL |-> "https://hooks.slack/cfg", ALERT_WEBHOOK_URL |-> "https://hook/cfg"]}

InitAlertSpec ==
    /\ now = 0
    /\ InitRules
    /\ InitAlerts
    /\ InitTasks
    /\ InitCache
    /\ env = BlankEnv

TickAlerts ==
    /\ now + AlertTick <= MaxAlertNow
    /\ now' = now + AlertTick
    /\ UNCHANGED <<rulesVars, alertVars, cacheVars, taskVars>>

NextAlerts ==
    \/ \E text \in RedFlagTexts, lookupOk \in BOOLEAN, dbOk \in BOOLEAN :
          /\ CheckForRedFlags(text, Some("Nairobi"), lookupOk, dbOk)
          /\ Len(alerts') <= MaxAlerts
          /\ UNCHANGED <<now, cacheVars, taskVars, rulesVars, feedback, responses, cfgFile, env>>
    \/ \E dbOk \in BOOLEAN :
          /\ ApiTestAlert("medium", dbOk)
          /\ Len(alerts') <= MaxAlerts
          /\ UNCHANGED <<now, cacheVars, taskVars, rulesVars, feedback, responses, cfgFile, env>>
    \/ \E id \in 1..MaxAlerts, dbOk \in BOOLEAN :
          /\ ApiAcknowledgeAlert(id, dbOk)
          /\ UNCHANGED <<now, cacheVars, taskVars, rulesVars, feedback, responses, cfgFile, env>>
    \/ \E id \in 1..MaxAlerts :
          /\ responses < MaxResponses
          /\ RecordGovernmentResponse(id, "resolved")
          /\ UNCHANGED <<now, cacheVars, taskVars, rulesVars, feedback, cfgFile, env>>
    \/ TickAlerts

\* The alert store over a day and a half: red-flag checks, test alerts, acknowledgement
\* and government responses.
SpecAlerts == InitAlertSpec /\ [][NextAlerts]_vars

InitNotifySpec ==
    /\ now = 0
    /\ InitRules
    /\ InitAlerts
    /\ InitTasks
    /\ InitCache
    /\ env \in Envs

NextNotify ==
    \/ \E text \in {TextPlain, TextCollapse}, loc \in Locations :
          /\ CheckForRedFlags(text, loc, TRUE, TRUE)
          /\ Len(alerts') <= MaxAlerts
          /\ UNCHANGED <<now, cacheVars, taskVars, rulesVars, feedback, responses, cfgFile, env>>
    \/ \E severity \in {"medium", "urgent"} :
          /\ ApiTestAlert(severity, TRUE)
          /\ Len(alerts') <= MaxAlerts
          /\ UNCHANGED <<now, cacheVars, taskVars, rulesVars, feedback, responses, cfgFile, env>>
    \/ \E threshold \in {1, 2}, dbOk \in BOOLEAN :
          /\ CheckTrendingComplaints(DedupHours, threshold, dbOk)
          /\ Len(alerts') <= MaxAlerts
          /\ UNCHANGED <<now, cacheVars, taskVars, rulesVars, feedback, responses, cfgFile, env>>
    \/ \E text \in FeedbackTexts, loc \in Locations :
          /\ Len(feedback) < MaxFeedback
          /\ IngestFeedback(text, loc)
          /\ UNCHANGED <<now, cacheVars, taskVars, rulesVars, alerts, responses, cfgFile, env, posts, alertResp>>
    \/ \E body \in ConfigBodies :
          /\ ApiSetAlertsConfig(body)
          /\ UNCHANGED <<now, cacheVars, taskVars, rulesVars, alerts, feedback, responses, env, posts, alertResp>>

\* Alert creation and its notifications under the runtime channel config.
SpecNotify == InitNotifySpec /\ [][NextNotify]_vars

CountyBody == [BaseBody EXCEPT !.sector = None, !.county = Some("Nairobi"), !.min_count = Some(1)]

CrisisKeys == {[hours |-> 24, min |-> 10], [hours |-> 24, min |-> 20]}

RealtimeSnapshots == {RtEmpty, RtQuiet, RtNairobi}

InitCacheSpec ==
    /\ now = 0
    /\ rules = CreateAll(<<>>, <<CountyBody>>)
    /\ rulesFile = Flush(CreateAll(<<>>, <<CountyBody>>))
    /\ uuids = 1
    /\ rulesResp = RulesRespOf("init", 0, NoData, 0, TRUE)
    /\ InitAlerts
    /\ InitTasks
    /\ InitCache
    /\ env = BlankEnv

\* The clock is read 0, 2 and 5 seconds after every multiple of the crisis TTL.
TickCache ==
    LET phase == now % CRISIS_CACHE_TTL_SECONDS
        step == IF phase = 0 THEN ShortTick
                ELSE IF phase = ShortTick THEN MidTick ELSE LongTick
    IN  /\ now + step <= MaxCacheNow
        /\ now' = now + step
        /\ UNCHANGED <<rulesVars, alertVars, cacheVars, taskVars>>

CallsStarted ==
    Len(crisisLog) + Cardinality({slot \in 1..MaxSlots : crisisCalls[slot].pc # "idle"})

NextCrisis ==
    \/ \E slot \in 1..MaxSlots, k \in CrisisKeys, dbOk \in BOOLEAN :
          /\ CallsStarted < MaxCrisisCalls
          /\ \A s \in 1..(slot - 1) : crisisCalls[s].pc # "idle"
          /\ DetectCrisisSignals(slot, k.hours, k.min, dbOk)
          /\ UNCHANGED <<now, rulesVars, feedback, responses, cfgFile, env, alertResp,
                         crisisDb, realtimeCache, realtimeDb, realtimeResp, realtimeCfg, realtimeRules, priority, taskVars>>
    \/ \E slot \in 1..MaxSlots, storeOk \in BOOLEAN :
          /\ DetectAfterAnalyses(slot, storeOk, {})
          /\ UNCHANGED <<now, rulesVars, feedback, responses, cfgFile, env, alertResp,
                         crisisDb, realtimeCache, realtimeDb, realtimeResp, realtimeCfg, realtimeRules, priority, taskVars>>
    \/ \E slot \in 1..MaxSlots :
          /\ DetectAfterAlerts(slot)
          /\ UNCHANGED <<now, rulesVars, feedback, responses, cfgFile, env, alertResp,
                         crisisDb, realtimeCache, realtimeDb, realtimeResp, realtimeCfg, realtimeRules, priority, taskVars>>
    \/ \E snap \in {SnapCalm, SnapPolicy} :
          /\ CrisisFeedbackChanges(snap)
          /\ UNCHANGED <<now, rulesVars, alertVars, crisisCache, crisisCalls, crisisRows,
                         crisisLog, realtimeCache, realtimeDb, realtimeResp, realtimeCfg, realtimeRules, analysis, priority, taskVars>>
    \/ TickCache

\* Overlapping detect_crisis_signals calls of one process over a cache lifetime.
SpecCrisis == InitCacheSpec /\ [][NextCrisis]_vars

NextCache ==
    \/ /\ CallsStarted < MaxCrisisCalls
       /\ DetectCrisisSignals(1, 24, 10, TRUE)
          /\ UNCHANGED <<now, rulesVars, feedback, responses, cfgFile, env, alertResp,
                         crisisDb, realtimeCache, realtimeDb, realtimeResp, realtimeCfg, realtimeRules, priority, taskVars>>
    \/ /\ DetectAfterAnalyses(1, TRUE, {})
       /\ UNCHANGED <<now, rulesVars, feedback, responses, cfgFile, env, alertResp,
                      crisisDb, realtimeCache, realtimeDb, realtimeResp, realtimeCfg, realtimeRules, priority, taskVars>>
    \/ /\ DetectAfterAlerts(1)
       /\ UNCHANGED <<now, rulesVars, feedback, responses, cfgFile, env, alertResp,
                      crisisDb, realtimeCache, realtimeDb, realtimeResp, realtimeCfg, realtimeRules, priority, taskVars>>
    \/ /\ CrisisFeedbackChanges(SnapPolicy)
       /\ UNCHANGED <<now, rulesVars, alertVars, crisisCache, crisisCalls, crisisRows,
                         crisisLog, realtimeCache, realtimeDb, realtimeResp, realtimeCfg, realtimeRules, analysis, priority, taskVars>>
    \/ /\ Len(alerts) < MaxRealtimeAlerts
       /\ GetUpdates
       /\ UNCHANGED <<now, rules, rulesFile, rulesResp, feedback, responses, cfgFile, env,
                      alertResp, crisisCache, crisisCalls, crisisDb, crisisRows, crisisLog,
                      realtimeDb, realtimeCfg, realtimeRules, analysis, priority, taskVars>>
    \/ \E snap \in RealtimeSnapshots :
          /\ RealtimeFeedbackChanges(snap)
          /\ UNCHANGED <<now, rulesVars, alertVars, crisisCache, crisisCalls, crisisDb,
                         crisisRows, crisisLog, realtimeCache, realtimeResp, realtimeCfg, realtimeRules, analysis, priority, taskVars>>
    \/ TickCache

\* Sequential crisis detection and the realtime feed over their cache lifetimes.
SpecCache == InitCacheSpec /\ [][NextCache]_vars

InitConfigSpec ==
    /\ now = 0
    /\ rules = CreateAll(<<>>, <<CountyBody>>)
    /\ rulesFile = Flush(CreateAll(<<>>, <<CountyBody>>))
    /\ uuids = 1
    /\ rulesResp = RulesRespOf("init", 0, NoData, 0, TRUE)
    /\ InitAlerts
    /\ InitTasks
    /\ InitCache
    /\ env \in Envs

crisisVars == <<crisisCache, crisisCalls, crisisDb, crisisRows, crisisLog>>

NextConfig ==
    \/ \E body \in ConfigBodies :
          /\ ApiSetAlertsConfig(body)
          /\ UNCHANGED <<now, cacheVars, taskVars, rulesVars, alerts, feedback, responses, env, posts,
                         alertResp>>
    \/ /\ RealtimeConnect
       /\ UNCHANGED <<now, rulesVars, alertVars, crisisVars, realtimeCache, realtimeDb,
                      realtimeResp, analysis, priority, taskVars>>
    \/ /\ Len(alerts) < MaxRealtimeAlerts
       /\ GetUpdates
       /\ UNCHANGED <<now, rules, rulesFile, rulesResp, feedback, responses, cfgFile, env,
                      alertResp, crisisVars, realtimeDb, realtimeCfg, realtimeRules, analysis, priority, taskVars>>
    \/ \E snap \in RealtimeSnapshots :
          /\ RealtimeFeedbackChanges(snap)
          /\ UNCHANGED <<now, rulesVars, alertVars, crisisVars, realtimeCache, realtimeResp,
                         realtimeCfg, realtimeRules, analysis, priority, taskVars>>
    \/ /\ ApiTestAlert("medium", TRUE)
       /\ Len(alerts') <= MaxRealtimeAlerts
       /\ UNCHANGED <<now, cacheVars, taskVars, rulesVars, feedback, responses, cfgFile, env>>
    \/ TickCache

\* The channel config changed at runtime while a realtime connection is open.
SpecConfig == InitConfigSpec /\ [][NextConfig]_vars

DetectWindows == {SnapCalm, SnapPolicy, SnapRally, SnapStorm}

\* No analyzer fails, one does, all do.
FailureSets == {{}} \cup {{a} : a \in Analyzers} \cup {Analyzers}

InitDetectSpec ==
    /\ now = 0
    /\ InitRules
    /\ InitAlerts
    /\ InitTasks
    /\ InitCache
    /\ env = BlankEnv

NextDetect ==
    \/ \E snap \in DetectWindows :
          /\ CrisisFeedbackChanges(snap)
          /\ UNCHANGED <<now, rulesVars, alertVars, crisisCache, crisisCalls, crisisRows,
                         crisisLog, realtimeCache, realtimeDb, realtimeResp, realtimeCfg, realtimeRules,
                         analysis, priority, taskVars>>
    \/ /\ CallsStarted < MaxDetectCalls
       /\ DetectCrisisSignals(1, 24, 10, TRUE)
       /\ UNCHANGED <<now, rulesVars, feedback, responses, cfgFile, env, alertResp,
                      crisisDb, realtimeCache, realtimeDb, realtimeResp, realtimeCfg, realtimeRules, priority, taskVars>>
    \/ \E storeOk \in BOOLEAN, failing \in FailureSets :
          /\ DetectAfterAnalyses(1, storeOk, failing)
          /\ UNCHANGED <<now, rulesVars, feedback, responses, cfgFile, env, alertResp,
                         crisisDb, realtimeCache, realtimeDb, realtimeResp, realtimeCfg, realtimeRules, priority, taskVars>>
    \/ /\ DetectAfterAlerts(1)
       /\ UNCHANGED <<now, rulesVars, feedback, responses, cfgFile, env, alertResp,
                      crisisDb, realtimeCache, realtimeDb, realtimeResp, realtimeCfg, realtimeRules, priority, taskVars>>
    \/ TickCache

\* Detection cycles, one at a time, whose analyzers may fail.
SpecDetect == InitDetectSpec /\ [][NextDetect]_vars

AnalysisWindows ==
    {<<>>, SnapFew, SnapPolicy, SnapStorm, SnapFlood, SnapDrift, SnapEdge, SnapCollapse,
     SnapUndated}

WindowHours == {24, 2}

(* The analyzers applied to the window in storage, as lines 139-184 and    *)
(* the dashboard's fallback (api/v1/crisis.py, lines 229-239) apply them,  *)
(* the dashboard to an empty window as well.                               *)
AnalyzeWindow(time_window_hours, failing) ==
    /\ analysis' = AnalysisOf(crisisDb, time_window_hours, now, failing,
                              Analyses(crisisDb, time_window_hours, now, failing))
    /\ UNCHANGED <<crisisCache, crisisCalls, crisisDb, crisisRows, crisisLog>>

InitAnalysisSpec ==
    /\ now = 0
    /\ rules = CreateAll(<<>>, <<CountyBody>>)
    /\ rulesFile = Flush(CreateAll(<<>>, <<CountyBody>>))
    /\ uuids = 1
    /\ rulesResp = RulesRespOf("init", 0, NoData, 0, TRUE)
    /\ InitAlerts
    /\ InitTasks
    /\ crisisCache = EmptyMap
    /\ crisisCalls = [slot \in 1..MaxSlots |-> IdleCall]
    /\ crisisDb \in AnalysisWindows
    /\ crisisRows = 0
    /\ crisisLog = <<>>
    /\ realtimeCache = None
    /\ realtimeDb = RtEmpty
    /\ realtimeResp = RealtimeRespOf(None, FALSE, None, FALSE, <<>>)
    /\ realtimeCfg = NoOverride
    /\ realtimeRules = ConnectionRules
    /\ analysis = NoAnalysis
    /\ priority = NoPriority
    /\ env = BlankEnv

NextAnalysis ==
    \/ \E hours \in WindowHours, failing \in FailureSets :
          /\ AnalyzeWindow(hours, failing)
          /\ UNCHANGED <<now, rulesVars, alertVars, realtimeCache, realtimeDb, realtimeResp,
                         realtimeCfg, realtimeRules, priority, taskVars>>
    \/ \E cc \in {EmptyMap, "nairobi" :> 15} :
          /\ ApiEvalRules(EmptyMap, cc)
          /\ UNCHANGED notRules
    \/ TickCache

PriorityTexts == {None, Some(TextPlain), Some(TextCollapse), Some(TextSlow)}

PrioritySentiments == {None, Some("negative"), Some("positive")}

PrioritySectors == {Some("health"), Some("governance")}

SimilarCounts == {None, Some(5), Some(10)}

FeedbackAges == {None, Some(0), Some(72 * SecondsPerHour)}

NextPriority ==
    \E text \in PriorityTexts, sentiment \in PrioritySentiments, sector \in PrioritySectors,
       similar \in SimilarCounts, age \in FeedbackAges, lookupOk \in BOOLEAN,
       storeOk \in BOOLEAN :
        /\ CalculatePriorityScore(text, sentiment, sector, similar, age, lookupOk, storeOk)
        /\ UNCHANGED <<now, rulesVars, alertVars, crisisVars, realtimeCache, realtimeDb,
                       realtimeResp, realtimeCfg, realtimeRules, analysis, taskVars>>

\* calculate_priority_score as a function of the item and of what storage answers.
SpecPriority == Init /\ [][NextPriority]_vars

\* The analyzers and the rule evaluation as functions of their inputs.
SpecAnalysis == InitAnalysisSpec /\ [][NextAnalysis]_vars

NextRedFlags ==
    \/ \E text \in RedFlagTexts :
          /\ ScheduleRedFlagCheck(text, Some("Nairobi"))
          /\ UNCHANGED <<now, cacheVars, rulesVars, feedback, responses, cfgFile, env,
                         realtimeCalls, crisisChecks, lastCrisisCheck>>
    \/ \E i \in 1..MaxRedFlagTasks, dbOk \in BOOLEAN :
          /\ RunRedFlagCheck(i, dbOk)
          /\ Len(alerts') <= MaxAlerts
          /\ UNCHANGED <<now, cacheVars, rulesVars, feedback, responses, cfgFile, env,
                         realtimeCalls, crisisChecks, lastCrisisCheck>>
    \/ TickAlerts

\* Red-flag checks scheduled by concurrent ingestion coroutines and run by
\* the event loop in any order, over a day and a half.
SpecRedFlags == InitAlertSpec /\ [][NextRedFlags]_vars

LateBody == [CountyBody EXCEPT !.name = Some("late")]

DisabledBody == [CountyBody EXCEPT !.enabled = FALSE]

NextLiveRules ==
    \/ ApiCreateRule(LateBody) /\ UNCHANGED notRules
    \/ \E id \in RuleIdInputs : ApiUpdateRule(id, DisabledBody) /\ UNCHANGED notRules
    \/ \E id \in RuleIdInputs : ApiDeleteRule(id) /\ UNCHANGED notRules
    \/ /\ RealtimeConnect
       /\ UNCHANGED <<now, rulesVars, alertVars, crisisVars, realtimeCache, realtimeDb,
                      realtimeResp, analysis, priority, taskVars>>
    \/ /\ Len(alerts) < MaxRealtimeAlerts
       /\ uuids < MaxUuid
       /\ GetUpdates
       /\ UNCHANGED <<now, rules, rulesFile, rulesResp, feedback, responses, cfgFile, env,
                      alertResp, crisisVars, realtimeDb, realtimeCfg, realtimeRules, analysis,
                      priority, taskVars>>
    \/ /\ RealtimeFeedbackChanges(RtNairobi)
       /\ UNCHANGED <<now, rulesVars, alertVars, crisisVars, realtimeCache, realtimeResp,
                      realtimeCfg, realtimeRules, analysis, priority, taskVars>>
    \/ TickCache

\* Rules are created, disabled and deleted through the API while realtime
\* connections are opened and polled.
SpecLiveRules == InitCacheSpec /\ [][NextLiveRules]_vars

NextRealtime ==
    \/ /\ Len(alerts) < MaxRealtimeAlerts
       /\ GetUpdates
       /\ UNCHANGED <<now, rules, rulesFile, rulesResp, feedback, responses, cfgFile, env,
                      alertResp, crisisVars, realtimeDb, realtimeCfg, realtimeRules, analysis,
                      priority, taskVars>>
    \/ \E conn \in 1..MaxConnections :
          /\ Len(alerts) < MaxRealtimeAlerts
          /\ GetUpdatesSuspends(conn)
          /\ UNCHANGED <<now, rules, rulesFile, rulesResp, feedback, responses, cfgFile, env,
                         alertResp, crisisVars, realtimeDb, realtimeCfg, realtimeRules,
                         analysis, priority, redFlagTasks, crisisChecks, lastCrisisCheck>>
    \/ \E conn \in 1..MaxConnections :
          /\ GetUpdatesResumes(conn)
          /\ UNCHANGED <<now, rules, rulesFile, rulesResp, feedback, responses, cfgFile, env,
                         alertResp, crisisVars, realtimeDb, realtimeCfg, realtimeRules,
                         analysis, priority, redFlagTasks, crisisChecks, lastCrisisCheck>>
    \/ \E snap \in RealtimeSnapshots :
          /\ RealtimeFeedbackChanges(snap)
          /\ UNCHANGED <<now, rulesVars, alertVars, crisisVars, realtimeCache, realtimeResp,
                         realtimeCfg, realtimeRules, analysis, priority, taskVars>>
    \/ TickCache

\* The update loops of the open realtime connections of one process, with
\* and without a notification channel configured.
SpecRealtime == InitConfigSpec /\ [][NextRealtime]_vars

ThrottleTick == 300

MaxThrottleNow == 1200

TickThrottle ==
    /\ now + ThrottleTick <= MaxThrottleNow
    /\ now' = now + ThrottleTick
    /\ UNCHANGED <<rulesVars, alertVars, cacheVars, taskVars>>

NextThrottle ==
    \/ /\ TriggerAnalysis
       /\ UNCHANGED <<now, rulesVars, alertVars, cacheVars, redFlagTasks, realtimeCalls>>
    \/ \E i \in 1..MaxCrisisChecks, slot \in 1..MaxSlots, dbOk \in BOOLEAN :
          /\ \A s \in 1..(slot - 1) : crisisCalls[s].pc # "idle"
          /\ PeriodicCrisisCheck(i, slot, dbOk)
          /\ UNCHANGED <<now, rulesVars, feedback, responses, cfgFile, env, alertResp,
                         crisisDb, realtimeCache, realtimeDb, realtimeResp, realtimeCfg,
                         realtimeRules, priority, redFlagTasks, realtimeCalls>>
    \/ \E slot \in 1..MaxSlots :
          /\ DetectAfterAnalyses(slot, TRUE, {})
          /\ UNCHANGED <<now, rulesVars, feedback, responses, cfgFile, env, alertResp,
                         crisisDb, realtimeCache, realtimeDb, realtimeResp, realtimeCfg,
                         realtimeRules, priority, taskVars>>
    \/ \E slot \in 1..MaxSlots :
          /\ DetectAfterAlerts(slot)
          /\ UNCHANGED <<now, rulesVars, feedback, responses, cfgFile, env, alertResp,
                         crisisDb, realtimeCache, realtimeDb, realtimeResp, realtimeCfg,
                         realtimeRules, priority, taskVars>>
    \/ /\ CrisisFeedbackChanges(SnapPolicy)
       /\ UNCHANGED <<now, rulesVars, alertVars, crisisCache, crisisCalls, crisisRows,
                      crisisLog, realtimeCache, realtimeDb, realtimeResp, realtimeCfg,
                      realtimeRules, analysis, priority, taskVars>>
    \/ TickThrottle

\* The crisis checks that ingestion spawns, run by the event loop in any
\* order over twenty minutes.
SpecThrottle == InitCacheSpec /\ [][NextThrottle]_vars

EscalationWindows ==
    {SnapCalm, SnapChorus, SnapSurge, SnapBrink, SnapOver, SnapStorm, SnapFlood}

EscalationFailures == {{}, {"sentiment_velocity"}, {"hashtag_intelligence"}}

InitEscalationSpec ==
    /\ now = 0
    /\ rules = CreateAll(<<>>, <<CountyBody>>)
    /\ rulesFile = Flush(CreateAll(<<>>, <<CountyBody>>))
    /\ uuids = 1
    /\ rulesResp = RulesRespOf("init", 0, NoData, 0, TRUE)
    /\ InitAlerts
    /\ InitTasks
    /\ crisisCache = EmptyMap
    /\ crisisCalls = [slot \in 1..MaxSlots |-> IdleCall]
    /\ crisisDb \in EscalationWindows
    /\ crisisRows = 0
    /\ crisisLog = <<>>
    /\ realtimeCache = None
    /\ realtimeDb = RtEmpty
    /\ realtimeResp = RealtimeRespOf(None, FALSE, None, FALSE, <<>>)
    /\ realtimeCfg = NoOverride
    /\ realtimeRules = ConnectionRules
    /\ analysis = NoAnalysis
    /\ priority = NoPriority
    /\ env = BlankEnv

NextEscalation ==
    \/ \E failing \in EscalationFailures :
          /\ AnalyzeWindow(24, failing)
          /\ UNCHANGED <<now, rulesVars, alertVars, realtimeCache, realtimeDb, realtimeResp,
                         realtimeCfg, realtimeRules, priority, taskVars>>
    \/ \E snap \in EscalationWindows :
          /\ CrisisFeedbackChanges(snap)
          /\ UNCHANGED <<now, rulesVars, alertVars, crisisCache, crisisCalls, crisisRows,
                         crisisLog, realtimeCache, realtimeDb, realtimeResp,
                         realtimeCfg, realtimeRules, analysis, priority, taskVars>>

\* The analyzers on one window after another.
SpecEscalation == InitEscalationSpec /\ [][NextEscalation]_vars

TierTexts == {TextPlain, TextCollapse, TextSlow, TextBroken, TextMixed}

NextTiers ==
    \/ \E text \in TierTexts :
          /\ ScheduleRedFlagCheck(text, Some("Nairobi"))
          /\ UNCHANGED <<now, cacheVars, rulesVars, feedback, responses, cfgFile, env,
                         realtimeCalls, crisisChecks, lastCrisisCheck>>
    \/ \E i \in 1..MaxRedFlagTasks, dbOk \in BOOLEAN :
          /\ RunRedFlagCheck(i, dbOk)
          /\ Len(alerts') <= MaxAlerts
          /\ UNCHANGED <<now, cacheVars, rulesVars, feedback, responses, cfgFile, env,
                         realtimeCalls, crisisChecks, lastCrisisCheck>>

\* Red-flag checks of texts of every mix of tiers, within one instant.
SpecTiers == InitAlertSpec /\ [][NextTiers]_vars

MaxTrendingFeedback == 5

MaxTrendingAlerts == 2

\* check_trending_complaints(hours, threshold): the caller's threshold
TrendingThreshold == 2

TrendingTexts == {TextSlow, TextCollapse, TextMixed}

\* A day and a half passes: what was stored before is out of the window.
TickTrending ==
    /\ now = 0
    /\ now' = MaxAlertNow
    /\ UNCHANGED <<rulesVars, alertVars, cacheVars, taskVars>>

NextTrending ==
    \/ /\ CheckTrendingComplaints(DedupHours, TrendingThreshold, TRUE)
       /\ Len(alerts') <= MaxTrendingAlerts
       /\ UNCHANGED <<now, cacheVars, taskVars, rulesVars, feedback, responses, cfgFile, env>>
    \/ \E text \in TrendingTexts :
          /\ Len(feedback) < MaxTrendingFeedback
          /\ IngestFeedback(text, Some("Nairobi"))
          /\ UNCHANGED <<now, cacheVars, taskVars, rulesVars, alerts, responses, cfgFile, env,
                         posts, alertResp>>
    \/ TickTrending

\* Feedback arriving on two days and the trending check run on it.
SpecTrending == InitAlertSpec /\ [][NextTrending]_vars

HashtagWindows ==
    {SnapCalm, SnapStorm, SnapChorus, SnapBrink, SnapEcho, SnapSources, SnapBabel, SnapFlood}

HashtagFailures == {{}, {"hashtag_intelligence"}}

InitHashtagSpec ==
    /\ now = 0
    /\ rules = CreateAll(<<>>, <<CountyBody>>)
    /\ rulesFile = Flush(CreateAll(<<>>, <<CountyBody>>))
    /\ uuids = 1
    /\ rulesResp = RulesRespOf("init", 0, NoData, 0, TRUE)
    /\ InitAlerts
    /\ InitTasks
    /\ crisisCache = EmptyMap
    /\ crisisCalls = [slot \in 1..MaxSlots |-> IdleCall]
    /\ crisisDb \in HashtagWindows \cup {<<>>}
    /\ crisisRows = 0
    /\ crisisLog = <<>>
    /\ realtimeCache = None
    /\ realtimeDb = RtEmpty
    /\ realtimeResp = RealtimeRespOf(None, FALSE, None, FALSE, <<>>)
    /\ realtimeCfg = NoOverride
    /\ realtimeRules = ConnectionRules
    /\ analysis = NoAnalysis
    /\ priority = NoPriority
    /\ env = BlankEnv

NextHashtags ==
    \/ \E failing \in HashtagFailures :
          /\ AnalyzeWindow(24, failing)
          /\ UNCHANGED <<now, rulesVars, alertVars, realtimeCache, realtimeDb, realtimeResp,
                         realtimeCfg, realtimeRules, priority, taskVars>>
    \/ \E snap \in HashtagWindows \cup {<<>>} :
          /\ CrisisFeedbackChanges(snap)
          /\ UNCHANGED <<now, rulesVars, alertVars, crisisCache, crisisCalls, crisisRows,
                         crisisLog, realtimeCache, realtimeDb, realtimeResp,
                         realtimeCfg, realtimeRules, analysis, priority, taskVars>>

\* The analyzers on windows of tagged items.
SpecHashtags == InitHashtagSpec /\ [][NextHashtags]_vars

(***************************************************************************)
(* Claims about the rule engine                                            *)
(***************************************************************************)
Range(f) == {f[i] : i \in DOMAIN f}

RegistryRules == {rules[i] : i \in 1..Len(rules)}

\* How many payloads of the last evaluation rule r produced.
PayloadsOf(r) == Cardinality({k \in 1..Len(rulesResp.by) : rulesResp.by[k] = r.id})

\* The condition of C4 as the claim words it: the rule is enabled and each of
\* sector and county that is set has a count, under that key, of minCount or more.
C4ClaimedCond(r, cs, cc) ==
    /\ r.enabled
    /\ (TruthyStr(r.sector) /\ r.min_count # None
            => DictGet(cs, r.sector[1], 0) >= r.min_count[1])
    /\ (TruthyStr(r.county) /\ r.min_count # None
            => DictGet(cc, r.county[1], 0) >= r.min_count[1])

\* C4 as claimed: an evaluation returns a payload for a rule iff the rule is
\* enabled and every one of sector and county it sets has count >= minCount,
\* one payload per triggered rule.
C4_Original ==
    rulesResp.op = "eval" =>
        \A r \in RegistryRules :
            PayloadsOf(r) = (IF C4ClaimedCond(r, rulesResp.cs, rulesResp.cc) THEN 1 ELSE 0)

\* The condition the code decides: counts are looked up under the lower-cased
\* name, and a rule whose sector and county are both None while its minCount
\* is non-zero never triggers.
C4AmendedCond(r, cs, cc) ==
    /\ r.enabled
    /\ (TruthyStr(r.sector) /\ r.min_count # None
            => DictGet(cs, Lower(r.sector[1]), 0) >= r.min_count[1])
    /\ (TruthyStr(r.county) /\ r.min_count # None
            => DictGet(cc, Lower(r.county[1]), 0) >= r.min_count[1])
    /\ ~(r.sector = None /\ r.county = None /\ TruthyInt(r.min_count))

\* C4 (amended): an evaluation returns a payload for a rule iff the rule is
\* enabled, every non-empty one of sector and county has, under its lower-cased
\* name, a count (0 when absent) >= minCount when a minCount is present, and the
\* rule is not one with sector and county both None and a non-zero minCount; a
\* disabled rule never triggers and a triggered rule gives exactly one payload.
C4_Evaluate ==
    rulesResp.op = "eval" =>
        /\ Len(rulesResp.data) = Len(rulesResp.by)
        /\ Range(rulesResp.by) \subseteq RuleIds(rules)
        /\ \A r \in RegistryRules :
              /\ PayloadsOf(r) = (IF C4AmendedCond(r, rulesResp.cs, rulesResp.cc) THEN 1 ELSE 0)
              /\ (~r.enabled => PayloadsOf(r) = 0)

\* An evaluation in which one enabled rule triggered and another enabled rule,
\* its count below the threshold, did not.
C4_Witness ==
    /\ rulesResp.op = "eval"
    /\ Len(rulesResp.data) = 1
    /\ Len(rules) = 2
    /\ \A r \in RegistryRules : r.enabled /\ TruthyStr(r.county) /\ r.min_count # None

\* C5: an enabled rule with a minCount >= 1 and neither a sector nor a county
\* (each None or "") never appears in the output of an evaluation.
C5_NeverTriggers ==
    rulesResp.op = "eval" =>
        \A r \in RegistryRules :
            (/\ r.enabled
             /\ r.min_count # None /\ r.min_count[1] >= 1
             /\ ~TruthyStr(r.sector)
             /\ ~TruthyStr(r.county))
            => PayloadsOf(r) = 0

\* The band of C6 for a minCount.
C6Band(mc) ==
    IF mc # None /\ mc[1] >= 50 THEN "critical"
    ELSE IF mc # None /\ mc[1] >= 20 /\ mc[1] < 50 THEN "high"
    ELSE "medium"

ExampleRule(r) ==
    r.enabled /\ r.sector = Some("health") /\ r.county = None /\ r.min_count = Some(10)

\* C6: the severity of every payload of an evaluation is the band of the
\* triggering rule's minCount (critical from 50, high from 20 to 49, medium
\* otherwise, also without a minCount), whatever the counts; and the rule
\* {sector: health, minCount: 10} on countsBySector = {health: 15} triggers
\* with severity medium.
C6_Severity ==
    rulesResp.op = "eval" =>
        /\ \A k \in 1..Len(rulesResp.data) :
              \E r \in RegistryRules :
                  /\ r.id = rulesResp.by[k]
                  /\ rulesResp.data[k].severity = C6Band(r.min_count)
        /\ (rulesResp.cs = "health" :> 15 =>
              \A r \in RegistryRules : ExampleRule(r) =>
                  \E k \in 1..Len(rulesResp.data) :
                      rulesResp.by[k] = r.id /\ rulesResp.data[k].severity = "medium")

\* The example of C6 was evaluated, beside a rule at the boundary 50.
C6_Witness ==
    /\ rulesResp.op = "eval"
    /\ rulesResp.cs = "health" :> 60
    /\ \E r \in RegistryRules : ExampleRule(r) /\ PayloadsOf(r) = 1
    /\ \E k \in 1..Len(rulesResp.data) : rulesResp.data[k].severity = "critical"

\* C7: after any sequence of create, update and delete, a fresh RulesStore
\* reading the file holds the same rule ids with the same field values as the
\* registry in memory.
C7_RoundTrip ==
    LET loaded == Load(rulesFile, uuids + 1, now)
    IN  /\ Len(loaded) = Len(rules)
        /\ Range(loaded) = RegistryRules

\* A delete has left one rule, whose empty name an update turned into the
\* default name.
C7_Witness ==
    /\ rulesResp.op = "delete"
    /\ rulesResp.status = 200
    /\ Len(rules) = 1
    /\ rules[1].name = UntitledRule
    /\ rules[1].enabled

ValidStored(r) ==
    /\ Len(r.name) <= MaxNameLen
    /\ (r.min_count = None \/ r.min_count[1] >= 1)

\* C8: a create or update with an invalid body is answered 422, an update of
\* an unknown id 404 and a delete of an unknown id 404, and none of them
\* changes the registry or the file; no invalid rule is ever stored.
C8_Rejected ==
    [][ /\ (rulesResp'.op \in {"create", "update"} /\ ~rulesResp'.valid
                => rulesResp'.status = 422)
        /\ (rulesResp'.op = "update" /\ rulesResp'.valid /\ rulesResp'.id \notin RuleIds(rules)
                => rulesResp'.status = 404)
        /\ (rulesResp'.op = "delete" /\ rulesResp'.id \notin RuleIds(rules)
                => rulesResp'.status = 404)
        /\ (rulesResp'.status \in {404, 422} => rules' = rules /\ rulesFile' = rulesFile)
        /\ \A i \in 1..Len(rules') : ValidStored(rules'[i]) ]_vars

\* A rejected update of an existing registry: the body is invalid.
C8_Witness ==
    /\ rulesResp.op = "update"
    /\ rulesResp.status = 422
    /\ Len(rules) = 2

(***************************************************************************)
(* Claims about the alert store                                            *)
(***************************************************************************)
IsRedFlag(a) == a.alert_type = Some("red_flag")

\* The store holds a red_flag alert created at most 24 hours before t.
RecentRedFlag(st, t) ==
    \E i \in 1..Len(st) : IsRedFlag(st[i]) /\ t - st[i].created_at <= DedupWindow

\* The step is a check_for_red_flags call (the clock does not move in it).
RedFlagCall == alertResp'.op = "red_flag" /\ now' = now

\* A matching call that finds a recent red_flag alert returns None and inserts nothing.
C1Suppressed ==
    (RedFlagCall /\ alertResp'.matched /\ alertResp'.lookupOk /\ RecentRedFlag(alerts, now))
        => (alertResp'.returned = <<>> /\ alerts' = alerts)

\* An alert inserted by a call whose lookup succeeded is more than 24 hours
\* younger than every red_flag alert already stored.
C1ApartWhenLookedUp ==
    (RedFlagCall /\ alertResp'.lookupOk /\ Len(alerts') > Len(alerts))
        => \A i \in 1..Len(alerts) :
              IsRedFlag(alerts[i])
                  => alerts'[Len(alerts')].created_at - alerts[i].created_at > DedupWindow

\* No two stored red_flag alerts were created less than 24 hours apart.
C1NoTwoClose ==
    \A i \in 1..Len(alerts), j \in 1..Len(alerts) :
        (i < j /\ IsRedFlag(alerts[i]) /\ IsRedFlag(alerts[j]))
            => alerts[j].created_at - alerts[i].created_at >= DedupWindow

\* C1 as stated: suppression after a successful lookup, and therefore never
\* two red_flag alerts less than 24 hours apart, whatever the lookups did.
C1_Original == [][C1Suppressed]_vars /\ []C1NoTwoClose

\* C1: a check_for_red_flags call whose text matches a tier and whose lookup
\* succeeds returns None and inserts nothing when a red_flag alert was created
\* at most 24 hours earlier; an alert inserted by a call whose lookup succeeded
\* is more than 24 hours younger than every stored red_flag alert.
C1_Dedup == [][C1Suppressed /\ C1ApartWhenLookedUp]_vars

\* A call was suppressed by the second of two red_flag alerts, which the
\* dedup let through because the first was older than 24 hours.
C1_Witness ==
    /\ alertResp.op = "red_flag" /\ alertResp.matched /\ alertResp.lookupOk
    /\ alertResp.returned = <<>>
    /\ Len(alerts) = 2
    /\ IsRedFlag(alerts[1]) /\ IsRedFlag(alerts[2])
    /\ alerts[2].created_at - alerts[1].created_at > DedupWindow
    /\ RecentRedFlag(alerts, now)

\* The columns no operation writes after the insert.
C9Created(a) ==
    <<a.id, a.alert_type, a.severity, a.title, a.sector, a.affected_counties,
      a.metadata, a.created_at>>

\* The store only grows and acknowledged never goes back to false.
C9Grows ==
    /\ Len(alerts') >= Len(alerts)
    /\ \A i \in 1..Len(alerts) : alerts[i].acknowledged => alerts'[i].acknowledged

\* C9 as stated: nothing is deleted, only acknowledged changes, only through
\* the acknowledge operation and only from false to true.
C9_Original ==
    [][/\ C9Grows
       /\ \A i \in 1..Len(alerts) :
             /\ [alerts'[i] EXCEPT !.acknowledged = alerts[i].acknowledged] = alerts[i]
             /\ alerts'[i] # alerts[i] => alertResp'.op = "ack"]_vars

\* C9: no operation deletes an alert or changes the columns it was created
\* with; acknowledged only goes from false to true; a row changes only in the
\* acknowledge operation, which sets acknowledged on the row with the given id
\* and leaves an acknowledged row unchanged, or in recording a government
\* response, which also writes acknowledged_at, resolution_status, response_id.
C9_Lifecycle ==
    [][/\ C9Grows
       /\ \A i \in 1..Len(alerts) :
             /\ C9Created(alerts'[i]) = C9Created(alerts[i])
             /\ alerts'[i] # alerts[i]
                   => /\ alertResp'.op \in {"ack", "gov_response"}
                      /\ alertResp'.returned = <<alerts[i].id>>
                      /\ alertResp'.op = "ack"
                            => /\ ~alerts[i].acknowledged
                               /\ alerts'[i] = [alerts[i] EXCEPT !.acknowledged = TRUE]]_vars

\* The first alert was acknowledged through the acknowledge operation while
\* the second carries a government response.
C9_Witness ==
    /\ Len(alerts) = 2
    /\ alertResp.op = "ack" /\ alertResp.returned = <<1>>
    /\ alerts[1].acknowledged /\ alerts[1].response_id = None
    /\ alerts[2].acknowledged /\ alerts[2].response_id # None

\* C10: for every alert persisted, a POST is attempted on every configured
\* channel: each sender queued for the alert the last operation returned has
\* its POST (same alert, channel, URL and payload) among the POSTs made.
C10_AllChannelsNotified ==
    \A i \in 1..Len(alertResp.tasks) :
        \E j \in 1..Len(posts) : posts[j] = alertResp.tasks[i]

(***************************************************************************)
(* Claims about the caches                                                 *)
(***************************************************************************)
\* The call that returned in this step, if one did.
C2Returned == crisisLog'[Len(crisisLog')]

\* The cache entry detect_crisis_signals found for a key, or None.
C2Entry(key) == DictGet(crisisCache, key, None)

\* A detect_crisis_signals call that started and returned in this step.
C2CrisisCall ==
    /\ Len(crisisLog') = Len(crisisLog) + 1
    /\ C2Returned.after = Len(crisisLog)
    /\ ~C2Returned.wrote

C2Crisis ==
    C2CrisisCall =>
        LET e == C2Entry(C2Returned.key)
        IN  /\ C2Returned.hit
                  => /\ e # None
                     /\ now - e[1].cached_at < CRISIS_CACHE_TTL_SECONDS
                     /\ C2Returned.returned = e[1].signals
            /\ (e # None /\ now - e[1].cached_at >= CRISIS_CACHE_TTL_SECONDS)
                  => (~C2Returned.hit /\ C2Returned.read)

C2Realtime ==
    (realtimeResp' # realtimeResp) =>
        /\ realtimeResp'.hit
              => /\ realtimeCache # None
                 /\ now - realtimeCache[1].cached_at < REALTIME_CACHE_TTL_SECONDS
                 /\ realtimeResp'.returned[1].data = realtimeCache[1].data
        /\ (realtimeCache # None
            /\ now - realtimeCache[1].cached_at >= REALTIME_CACHE_TTL_SECONDS)
              => (~realtimeResp'.hit /\ realtimeResp'.read)

\* C2: detect_crisis_signals and get_updates return a cached value only when
\* the entry's age at the call is strictly below the TTL (300 s, 5 s), and it
\* is the entry's value; with an entry of age >= TTL the call is not served
\* from the cache and reads storage.
C2_NoStaleServed == [][C2Crisis /\ C2Realtime]_vars

\* A crisis entry cached at 0 was served at a later time and refused at age
\* 300; the realtime entry was refused at age 5.
C2_Witness ==
    /\ Len(crisisLog) = 3
    /\ crisisLog[1].wrote /\ crisisLog[1].start = 0
    /\ crisisLog[2].hit /\ crisisLog[2].start > 0
    /\ ~crisisLog[3].hit /\ crisisLog[3].read
    /\ crisisLog[3].start = CRISIS_CACHE_TTL_SECONDS
    /\ ~realtimeResp.hit /\ realtimeResp.read
    /\ realtimeResp.age = Some(REALTIME_CACHE_TTL_SECONDS)

\* C3: once a call has returned and cached its result, every call with the
\* same key that starts afterwards and less than the TTL after that result was
\* stamped is served from the cache with exactly that result and reads nothing;
\* and a call is served from the cache only within the TTL of such a result.
C3_CacheCorrect ==
    /\ \A i \in 1..Len(crisisLog), j \in 1..Len(crisisLog) :
          (/\ crisisLog[i].wrote
           /\ crisisLog[j].key = crisisLog[i].key
           /\ crisisLog[j].after >= i
           /\ crisisLog[j].start - crisisLog[i].start < CRISIS_CACHE_TTL_SECONDS)
              => /\ crisisLog[j].hit
                 /\ ~crisisLog[j].read
                 /\ crisisLog[j].returned = crisisLog[i].returned
    /\ \A j \in 1..Len(crisisLog) :
          crisisLog[j].hit
              => \E i \in 1..Len(crisisLog) :
                    /\ crisisLog[i].wrote
                    /\ crisisLog[i].key = crisisLog[j].key
                    /\ crisisLog[j].start - crisisLog[i].start < CRISIS_CACHE_TTL_SECONDS

(***************************************************************************)
(* Claims about notification and configuration                            *)
(***************************************************************************)
\* The rows the step appended to the alert store.
Inserted == SubSeq(alerts', Len(alerts) + 1, Len(alerts'))

\* C11: when the notification of an inserted alert raises (a sender was queued,
\* and _notify_channels raises with any sender queued), the stored alerts stay
\* as they were, every alert the operation inserted stays inserted, and the
\* operation returns exactly the inserted records, none of them replaced by
\* None, the later alerts of the same cycle included.
C11_NotifyFailureIsolated ==
    [][(alertResp' # alertResp /\ alertResp'.tasks # <<>>)
          => /\ Len(alerts') > Len(alerts)
             /\ SubSeq(alerts', 1, Len(alerts)) = alerts
             /\ alertResp'.returned = [i \in 1..Len(Inserted) |-> Inserted[i].id]]_vars

\* A trending cycle inserted and returned two alerts although the notification
\* of each raised and nothing was posted.
C11_Witness ==
    /\ alertResp.op = "trending"
    /\ Len(alertResp.returned) = 2
    /\ Len(alertResp.tasks) >= 2
    /\ Len(alerts) = 2
    /\ posts = <<>>

\* The senders the channel config stored now resolves for a list of rows.
RECURSIVE ResolvedNow(_)
ResolvedNow(rows) ==
    IF rows = <<>> THEN <<>>
    ELSE NotifyTasks(Head(rows), cfgFile, env) \o ResolvedNow(Tail(rows))

\* C12: every notification dispatched resolves, for each channel, the URL that
\* set_alerts_config stored last when it is non-blank and the static setting
\* otherwise, whichever AlertService instance sends it: the senders queued for
\* the alerts a step persisted are those the stored config resolves.
C12_OverrideResolved ==
    [][/\ (alertResp' # alertResp /\ Len(alerts') > Len(alerts))
             => alertResp'.tasks = ResolvedNow(Inserted)
       /\ (realtimeResp' # realtimeResp /\ Len(alerts') > Len(alerts))
             => realtimeResp'.tasks = ResolvedNow(Inserted)]_vars

\* The rows create_alert persisted: check_for_red_flags and
\* check_trending_complaints insert theirs directly.
ViaCreateAlert(a) ==
    a.alert_type \notin {Some("red_flag"), Some("trending_issue")}

\* C13: create_alert applies a dedup window: no two alerts it persisted carry
\* the same type, severity and title and were created less than the window
\* apart.
C13_DedupOnCreate ==
    \A i \in 1..Len(alerts), j \in 1..Len(alerts) :
        (/\ i < j
         /\ ViaCreateAlert(alerts[i]) /\ ViaCreateAlert(alerts[j])
         /\ alerts[i].alert_type = alerts[j].alert_type
         /\ alerts[i].severity = alerts[j].severity
         /\ alerts[i].title = alerts[j].title)
            => alerts[j].created_at - alerts[i].created_at >= DedupWindow

(***************************************************************************)
(* Claims about the signal analyzers                                       *)
(***************************************************************************)
\* The signals of one type, in order.
OfType(signals, type) == SelectSeq(signals, LAMBDA sg : sg.type = type)

\* The cycle in the slot resumed from the analyses in this step.
C14Analysed(slot) ==
    crisisCalls[slot].pc = "gather" /\ crisisCalls'[slot].pc # "gather"

\* The cycle in the slot resumed from the creation of its alerts in this step.
C14Dispatched(slot) ==
    crisisCalls[slot].pc = "alerts" /\ crisisCalls'[slot].pc # "alerts"

(* What the analyses of the step came to, against the same analyses with   *)
(* no failure: no exception left an analyzer, a failed analyzer returned   *)
(* its default, the signals of each of the four gathered analyzers that    *)
(* did not fail are those it has without any failure, and the escalation   *)
(* prediction, unless it failed, is the one of the results it was handed.  *)
C14Isolated ==
    LET a == analysis'[1]
        out == a.out[1]
        clean == Analyses(a.items, a.hours, a.at, {})[1]
        same(type) == OfType(out.crisis_signals, type) = OfType(clean.crisis_signals, type)
        none(type) == OfType(out.crisis_signals, type) = <<>>
    IN  /\ a.out # None
        /\ IF "sentiment_velocity" \in a.failing
           THEN out.sentiment_velocity = VelocityDefault /\ none("sentiment_velocity")
           ELSE out.sentiment_velocity = clean.sentiment_velocity /\ same("sentiment_velocity")
        /\ IF "hashtag_intelligence" \in a.failing
           THEN out.hashtag_intel = HashtagDefault /\ none("hashtag_trending")
           ELSE out.hashtag_intel = clean.hashtag_intel /\ same("hashtag_trending")
        /\ IF "policy_crises" \in a.failing
           THEN none("policy_crisis") ELSE same("policy_crisis")
        /\ IF "protest_organizing" \in a.failing
           THEN none("protest_organizing") ELSE same("protest_organizing")
        /\ IF "escalation" \in a.failing
           THEN out.escalation_prediction = EscalationDefault /\ none("escalation_prediction")
           ELSE /\ out.escalation_prediction
                     = Escalation(a.items, out.sentiment_velocity, out.hashtag_intel)
                /\ none("escalation_prediction")
                     <=> ~FloatGreater(out.escalation_prediction.escalation_probability, 6)

\* The cycle goes on with exactly the signals of the analyses: it returns
\* them at once when there are none and queues their alerts otherwise.
C14Proceeds(slot) ==
    LET signals == analysis'[1].out[1].crisis_signals
    IN  IF signals = <<>>
        THEN /\ Len(crisisLog') = Len(crisisLog) + 1
             /\ crisisLog'[Len(crisisLog')].returned = <<>>
        ELSE /\ crisisCalls'[slot].pc = "alerts"
             /\ crisisCalls'[slot].signals = signals

\* The queued signals are returned, and each has its alert in the store.
C14Returned(slot) ==
    LET signals == crisisCalls[slot].signals
    IN  /\ Len(crisisLog') = Len(crisisLog) + 1
        /\ crisisLog'[Len(crisisLog')].returned = signals
        /\ Len(Inserted) = Len(signals)
        /\ \A i \in 1..Len(signals) :
              /\ Inserted[i].alert_type = Some("crisis_signal")
              /\ Inserted[i].severity = signals[i].severity
              /\ Inserted[i].metadata[1] = signals[i].type

\* C14: in a detection cycle that read its window, an analyzer that fails
\* inside returns its neutral default, no exception leaves an analyzer or the
\* cycle, and the signals of the other analyzers are produced, returned by
\* detect_crisis_signals as a list and turned into alerts.
C14_AnalyzerIsolation ==
    [][\A slot \in 1..MaxSlots :
          /\ C14Analysed(slot) => (C14Isolated /\ C14Proceeds(slot))
          /\ C14Dispatched(slot) => C14Returned(slot)]_vars

\* The policy analyzer failed on the storm window; the cycle returned the four
\* signals of the other analyzers and their four alerts are in the store.
C14_Witness ==
    /\ analysis # NoAnalysis
    /\ analysis[1].failing = {"policy_crises"}
    /\ analysis[1].items = SnapStorm
    /\ Len(crisisLog) = 1
    /\ Len(crisisLog[1].returned) = 4
    /\ crisisLog[1].returned = analysis[1].out[1].crisis_signals
    /\ Len(alerts) = 4

\* The result of the last run of the analyzers.
LastOut == analysis[1].out[1]

\* 0 <= x <= 1 for a fraction x
RUnit(x) == ~RLess(x, Rat(0, 1)) /\ ~RLess(Rat(1, 1), x)

\* 0 <= score <= 1 for a float kept in tenths
FloatUnit(score) ==
    /\ score.tenths >= 0 /\ score.tenths <= 10
    /\ score.tenths = 0 => score.ulps >= 0
    /\ score.tenths = 10 => score.ulps <= 0

\* C15: on every window, the empty one, one with fewer than two buckets and
\* the failure paths included, the velocity_score of
\* _analyze_sentiment_velocity and the escalation_probability of
\* _predict_escalation lie in [0, 1].
C15_ScoresInUnitInterval ==
    analysis # NoAnalysis
        => /\ analysis[1].out # None
           /\ RUnit(LastOut.sentiment_velocity.velocity_score)
           /\ FloatUnit(LastOut.escalation_prediction.escalation_probability)

\* On the flood window the velocity is 500 percent and the risk score 1.2:
\* both results are capped at 1.
C15_Witness ==
    /\ analysis # NoAnalysis
    /\ analysis[1].items = SnapFlood /\ analysis[1].failing = {}
    /\ RLess(Rat(50, 1), RAbs(LastOut.sentiment_velocity.velocity_percent))
    /\ LastOut.sentiment_velocity.velocity_score = Rat(1, 1)
    /\ LastOut.escalation_prediction.risk_score.tenths = 12
    /\ LastOut.escalation_prediction.escalation_probability = Float(10, 0)

\* The analyzers ran again on the window, the hours and the failures of
\* their last run.
C17SameAnalysis ==
    /\ analysis # NoAnalysis /\ analysis' # analysis
    /\ analysis'[1].items = analysis[1].items
    /\ analysis'[1].hours = analysis[1].hours
    /\ analysis'[1].failing = analysis[1].failing

\* The rules were evaluated again on the rule set and the count maps of the
\* last evaluation.
C17SameEvaluation ==
    /\ rulesResp.op = "eval" /\ rulesResp'.op = "eval"
    /\ uuids' # uuids
    /\ rules' = rules
    /\ rulesResp'.cs = rulesResp.cs /\ rulesResp'.cc = rulesResp.cc

\* C17: two runs of the analyzers over one window produce the same signals,
\* and two evaluate calls over one rule set and equal count maps the same
\* alert payloads, whenever each of them runs.
C17_Deterministic ==
    [][/\ C17SameAnalysis
            => analysis'[1].out[1].crisis_signals = analysis[1].out[1].crisis_signals
       /\ C17SameEvaluation => rulesResp'.data = rulesResp.data]_vars

\* The items of the window analysed last that are negative, and those with
\* the word "collapse".
C19Negative ==
    {i \in DOMAIN analysis[1].items : analysis[1].items[i].sentiment = "negative"}

C19Collapse ==
    {i \in DOMAIN analysis[1].items : "collapse" \in analysis[1].items[i].text.kws}

\* C19: on a window of 30 items, 24 of them negative, with the word
\* "collapse" in at least 6 items, the escalation-keyword factor applies and
\* the escalation_probability of _predict_escalation is at least 0.5.
C19_CollapseEscalates ==
    (/\ analysis # NoAnalysis
     /\ analysis[1].failing = {}
     /\ Len(analysis[1].items) = 30
     /\ Cardinality(C19Negative) = 24
     /\ Cardinality(C19Collapse) >= 6)
        => /\ LastOut.escalation_prediction.escalation_probability.tenths >= 5
           /\ \E k \in DOMAIN LastOut.escalation_prediction.risk_factors :
                 LastOut.escalation_prediction.risk_factors[k] = "Escalation language detected"

(***************************************************************************)
(* Claims about priority scores                                            *)
(***************************************************************************)
\* The level the thresholds 80, 60 and 40 assign to a score.
C16Level(score) ==
    CHOOSE level \in {"critical", "high", "medium", "low"} :
        /\ level = "critical" <=> score >= 80
        /\ level = "high" <=> (60 <= score /\ score < 80)
        /\ level = "medium" <=> (40 <= score /\ score < 60)

\* C16: whatever the item and whatever storage answers, the fallback
\* included, calculate_priority_score returns a priority_score in [0, 100] and
\* the priority_level the thresholds assign to it: critical from 80, high from
\* 60, medium from 40, low below.
C16_ScoreAndLevel ==
    priority # NoPriority
        => /\ priority[1].priority_score >= 0 /\ priority[1].priority_score <= 100
           /\ priority[1].priority_level = C16Level(priority[1].priority_score)

\* A score of exactly 80 was computed, stored and levelled critical.
C16_Witness ==
    /\ priority # NoPriority
    /\ ~priority[1].error
    /\ priority[1].priority_score = 80
    /\ priority[1].priority_level = "critical"
    /\ priority[1].stored

(***************************************************************************)
(* Claims about the persisted alerts                                       *)
(***************************************************************************)
\* The severities of the persisted Alert schema.
SchemaSeverities == {"low", "medium", "high", "critical"}

\* C18: every persisted alert, whichever path created it, carries an alert
\* type and a severity that is one of low, medium, high and critical.
C18_AlertSchema ==
    \A i \in 1..Len(alerts) :
        /\ alerts[i].alert_type # None
        /\ alerts[i].severity \in SchemaSeverities

(***************************************************************************)
(* Claims about overlapping detection cycles                               *)
(***************************************************************************)
\* Calls i and j of the log, i the first to return, ran with the same key and
\* overlapped: j started before i returned.
C20Overlap(i, j) ==
    /\ i < j
    /\ crisisLog[i].key = crisisLog[j].key
    /\ crisisLog[j].after < i

\* The call computed signals from storage and had their alerts persisted.
C20Persisted(i) ==
    /\ crisisLog[i].read /\ ~crisisLog[i].hit
    /\ crisisLog[i].wrote
    /\ crisisLog[i].returned # <<>>

\* C20: of two overlapping detect_crisis_signals calls with one cache key
\* that start within the TTL of each other, at most one computes the signals
\* and persists their alerts.
C20_ComputedOnce ==
    \A i \in 1..Len(crisisLog), j \in 1..Len(crisisLog) :
        (/\ C20Overlap(i, j)
         /\ crisisLog[j].start - crisisLog[i].start < CRISIS_CACHE_TTL_SECONDS
         /\ crisisLog[i].start - crisisLog[j].start < CRISIS_CACHE_TTL_SECONDS
         /\ crisisLog[i].returned = crisisLog[j].returned)
            => ~(C20Persisted(i) /\ C20Persisted(j))

(***************************************************************************)
(* Claims about the coroutines of the ingestion pipeline                   *)
(***************************************************************************)
C21RedFlags == {i \in 1..Len(alerts) : alerts[i].alert_type = Some("red_flag")}

\* C21: whatever order the event loop runs concurrently scheduled
\* check_for_red_flags calls in, with storage answering, any two red_flag
\* alerts they insert are created more than 24 hours apart, so no trailing
\* 24-hour window holds two of them.
C21_OnePerWindow ==
    \A i \in C21RedFlags, j \in C21RedFlags :
        i < j => alerts[j].created_at - alerts[i].created_at > DedupWindow

\* Two checks on matching texts were scheduled together, the loop ran the
\* later one first, and exactly one of them inserted an alert.
C21_Witness ==
    \E i \in RedFlagsRun, j \in RedFlagsRun :
        /\ i < j
        /\ DetectRedFlag(redFlagTasks[i].text).severity # None
        /\ DetectRedFlag(redFlagTasks[j].text).severity # None
        /\ redFlagTasks[i].scheduled = redFlagTasks[j].scheduled
        /\ redFlagTasks[j].ran[1].order < redFlagTasks[i].ran[1].order
        /\ redFlagTasks[j].ran[1].at = redFlagTasks[i].ran[1].at
        /\ redFlagTasks[j].ran[1].returned # <<>>
        /\ redFlagTasks[i].ran[1].returned = <<>>
        /\ Cardinality(C21RedFlags) = 1

(***************************************************************************)
(* Claims about the realtime loop                                          *)
(***************************************************************************)
\* The step is a get_updates call that read storage and evaluated rules.
C22Evaluated ==
    /\ realtimeResp'.read
    /\ (realtimeResp' # realtimeResp \/ alerts' # alerts)
    /\ UNCHANGED <<rules, realtimeDb, now>>

\* The titles of the alerts the step persisted.
C22Persisted == {alerts'[i].title : i \in (Len(alerts) + 1)..Len(alerts')}

\* The titles the rules of the API's registry give on the counts of the step.
C22Registry ==
    LET since == now - RealtimeWindowHours * SecondsPerHour
        out == Evaluate(rules, CountsBySector(realtimeDb.classes, since),
                        CountsByCounty(realtimeDb.feedback, since), uuids, now)
    IN  {<<"rule", out[i].title>> : i \in 1..Len(out)}

\* C22: every rule evaluation of the process follows the rules API: a
\* get_updates call that evaluates rules persists alerts for exactly the
\* rules the API's registry holds enabled and satisfied at that moment, so
\* none for a rule deleted or disabled before the call and one for a rule
\* created before it.
C22_RulesTakeEffect == [][C22Evaluated => C22Persisted = C22Registry]_vars

\* The alerts persisted for triggered rules: create_alert on a rule payload.
C23RuleAlerts == {i \in 1..Len(alerts) : alerts[i].alert_type = None}

\* C23: whatever the order and interleaving of the get_updates calls of the
\* process's connections, two alerts persisted for one rule are created at
\* least the cache TTL of 5 seconds apart.
C23_OnePerTtl ==
    \A i \in C23RuleAlerts, j \in C23RuleAlerts :
        (i < j /\ alerts[i].title = alerts[j].title)
            => alerts[j].created_at - alerts[i].created_at >= REALTIME_CACHE_TTL_SECONDS

(***************************************************************************)
(* Claims about the crisis-check throttle                                  *)
(***************************************************************************)
\* When the detections started so far started: those that returned and
\* those still suspended.
C24Started ==
    [i \in 1..Len(crisisLog) |-> crisisLog[i].start]
    \o [k \in 1..Cardinality({s \in 1..MaxSlots : crisisCalls[s].pc # "idle"}) |->
           crisisCalls[CHOOSE s \in 1..MaxSlots :
                          /\ crisisCalls[s].pc # "idle"
                          /\ Cardinality({u \in 1..s : crisisCalls[u].pc # "idle"}) = k].start]

\* C24: whatever order the event loop runs the _periodic_crisis_check tasks
\* of one IngestionService in, two detections they start are at least 10
\* minutes apart, whether or not the earlier one failed.
C24_OncePerInterval ==
    \A i \in 1..Len(C24Started), j \in 1..Len(C24Started) :
        i < j => Abs(C24Started[j] - C24Started[i]) >= CrisisCheckMinutes * SecondsPerMinute

\* Two checks created together ran at the same time: the first started a
\* detection, which failed on storage, and the second was throttled; a later
\* check started the next detection 10 minutes after the failed one.
C24_Witness ==
    /\ Len(crisisChecks) = 3
    /\ \A i \in 1..3 : crisisChecks[i].ran # None
    /\ crisisChecks[1].created = crisisChecks[2].created
    /\ crisisChecks[1].ran[1].at = crisisChecks[2].ran[1].at
    /\ crisisChecks[1].ran[1].started /\ ~crisisChecks[2].ran[1].started
    /\ crisisChecks[3].ran[1].started
    /\ Len(crisisLog) >= 1
    /\ crisisLog[1].read /\ ~crisisLog[1].wrote /\ crisisLog[1].start = crisisChecks[1].ran[1].at
    /\ crisisChecks[3].ran[1].at - crisisLog[1].start = CrisisCheckMinutes * SecondsPerMinute

(***************************************************************************)
(* Claims about detection cycles that end early                            *)
(***************************************************************************)
\* Call i of the log read storage and ended without writing the cache: the
\* read raised or returned fewer than min_volume rows.
C25Aborted(log, i) == log[i].read /\ ~log[i].wrote

\* The step is the return of such a call.
C25Aborts ==
    /\ Len(crisisLog') = Len(crisisLog) + 1
    /\ C25Aborted(crisisLog', Len(crisisLog'))

\* Call j is the next call with the key of call i: it started after i had
\* returned and no call that returned before j started wrote the cache
\* after i.
C25Next(log, i, j) ==
    /\ i < j
    /\ log[j].key = log[i].key
    /\ log[j].after >= i
    /\ \A k \in (i + 1)..log[j].after : ~log[k].wrote

C26Weights(a) ==
    LET items == a.items
        corpus == Take(items, MaxCorpusItems)
        out == a.out[1]
    IN  (IF RLess(Rat(1, 2), out.sentiment_velocity.velocity_score) THEN 3 ELSE 0)
        + (IF Len(out.hashtag_intel.trending_hashtags) >= 3 THEN 2 ELSE 0)
        + (IF Len(items) > 50 THEN 2 ELSE 0)
        + (IF Cardinality({i \in DOMAIN corpus :
                              corpus[i].text.kws \cap EscalationSignals # {}}) > 5
           THEN 3 ELSE 0)
        + (IF Cardinality({i \in DOMAIN items : items[i].sentiment = "negative"}) * 5
                  > Len(items) * 4
           THEN 2 ELSE 0)

\* The run emitted the escalation_prediction signal.
C26Emitted(a) ==
    \E k \in DOMAIN a.out[1].crisis_signals :
        a.out[1].crisis_signals[k].type = "escalation_prediction"

\* The probability of the run, to the tenth.
C26Tenths(a) == a.out[1].escalation_prediction.escalation_probability.tenths

\* C26: on a non-empty window the escalation probability is the sum of the
\* weights of the satisfied factors, capped at 1.0, and two runs whose
\* factors have the same weight sum have the same probability and agree on
\* emitting the escalation_prediction signal.
C26_WeightedSum ==
    [][(analysis' # analysis /\ analysis' # NoAnalysis) =>
          /\ C26Tenths(analysis'[1])
                = (IF C26Weights(analysis'[1]) > 10 THEN 10 ELSE C26Weights(analysis'[1]))
          /\ (analysis # NoAnalysis /\ C26Weights(analysis[1]) = C26Weights(analysis'[1]))
                => /\ analysis[1].out[1].escalation_prediction.escalation_probability
                        = analysis'[1].out[1].escalation_prediction.escalation_probability
                   /\ C26Emitted(analysis[1]) <=> C26Emitted(analysis'[1])]_vars

(***************************************************************************)
(* Claims about the direction of the sentiment velocity                    *)
(***************************************************************************)
\* The shares of negative items of the non-empty buckets of a run, the
\* oldest bucket first and the most recent last.
C27Shares(a) ==
    LET items == a.items
        dated == {i \in DOMAIN items : items[i].created_at # None}
        bucket(i) == BucketOf(items[i], a.hours, a.at)
        keys == Sorted({bucket(i) : i \in dated})
        n == Len(keys)
        share(b) == Rat(Cardinality({i \in dated : /\ bucket(i) = b
                                                   /\ items[i].sentiment = "negative"}),
                        Cardinality({i \in dated : bucket(i) = b}))
    IN  [k \in 1..n |-> share(keys[n + 1 - k])]

\* (recentAvg - earlierAvg) / max(earlierAvg, 0.1) * 100, recentAvg the mean
\* of the two most recent shares and earlierAvg the mean of the shares
\* before them, or the oldest share when there are two.
C27Velocity(shares) ==
    LET n == Len(shares)
        recentAvg == RDiv(RSum(SubSeq(shares, n - 1, n)), Rat(2, 1))
        earlierAvg == IF n > 2 THEN RDiv(RSum(SubSeq(shares, 1, n - 2)), Rat(n - 2, 1))
                      ELSE shares[1]
    IN  RMul(RDiv(RSub(recentAvg, earlierAvg), RMax(earlierAvg, Rat(1, 10))), Rat(100, 1))

\* C27: on a window with at least two non-empty buckets the velocity_percent
\* of _analyze_sentiment_velocity compares the most recent buckets with the
\* older ones before them: it is positive when the share of negative items
\* rose from the older to the newer items and negative when it fell.
C27_VelocityDirection ==
    (/\ analysis # NoAnalysis
     /\ "sentiment_velocity" \notin analysis[1].failing
     /\ Len(C27Shares(analysis[1])) >= 2)
        => LastOut.sentiment_velocity.velocity_percent = C27Velocity(C27Shares(analysis[1]))

(***************************************************************************)
(* Claims about the tiers of the red-flag keywords                         *)
(***************************************************************************)
\* The keywords of a list that occur in the text.
C28Matches(list, text) == {list[k] : k \in DOMAIN list} \cap text.kws

\* The highest tier with a keyword in the text, if any.
C28Tier(text) ==
    IF C28Matches(CriticalKeywords, text) # {} THEN Some("critical")
    ELSE IF C28Matches(HighKeywords, text) # {} THEN Some("high")
    ELSE IF C28Matches(MediumKeywords, text) # {} THEN Some("medium")
    ELSE None

\* The step runs the scheduled check i.
C28Runs(i) ==
    /\ i \in 1..Len(redFlagTasks)
    /\ redFlagTasks[i].ran = None
    /\ redFlagTasks'[i].ran # None

\* C28: a check_for_red_flags call gives the alert it inserts the severity
\* of the highest tier, critical before high before medium, that has a
\* keyword in the text, whatever lower tiers match as well; on a text that
\* matches no tier it returns None and inserts and notifies nothing.
C28_HighestTier ==
    [][\A i \in 1..MaxRedFlagTasks :
          C28Runs(i) =>
              LET tier == C28Tier(redFlagTasks[i].text)
              IN  /\ alertResp'.matched <=> tier # None
                  /\ tier = None =>
                        /\ alertResp'.returned = <<>>
                        /\ alerts' = alerts
                        /\ posts' = posts
                  /\ alerts' # alerts =>
                        /\ Len(alerts') = Len(alerts) + 1
                        /\ alerts'[Len(alerts')].alert_type = Some("red_flag")
                        /\ alerts'[Len(alerts')].severity = tier[1]]_vars

\* A text without keywords was checked and gave nothing; then a text with a
\* keyword of each tier gave a critical alert.
C28_Witness ==
    \E i \in RedFlagsRun, j \in RedFlagsRun :
        /\ redFlagTasks[i].text = TextPlain
        /\ redFlagTasks[i].ran[1].returned = <<>>
        /\ redFlagTasks[i].ran[1].order < redFlagTasks[j].ran[1].order
        /\ redFlagTasks[j].text = TextMixed
        /\ C28Matches(HighKeywords, TextMixed) # {}
        /\ C28Matches(MediumKeywords, TextMixed) # {}
        /\ redFlagTasks[j].ran[1].returned = <<Len(alerts)>>
        /\ alerts[Len(alerts)].severity = "critical"

(***************************************************************************)
(* Claims about trending complaints                                        *)
(***************************************************************************)
\* The critical keywords, then the high ones.
C29Keywords == CriticalKeywords \o HighKeywords

\* The feedback of the last 24 hours.
C29Recent ==
    {i \in 1..Len(feedback) : feedback[i].created_at >= now - DedupHours * SecondsPerHour}

\* The recent items whose first keyword, critical before high, is the k-th.
C29Group(k) ==
    {i \in C29Recent :
        /\ C29Keywords[k] \in feedback[i].text.kws
        /\ \A j \in 1..(k - 1) : C29Keywords[j] \notin feedback[i].text.kws}

\* The rows the step inserted that report the k-th keyword.
C29Inserted(k) ==
    {r \in (Len(alerts) + 1)..Len(alerts') : alerts'[r].metadata[1] = C29Keywords[k]}

\* The step is a check_trending_complaints call.
C29Call == alertResp'.op = "trending" /\ feedback' = feedback /\ now' = now

\* C29: check_trending_complaints puts each item of the window into the
\* group of the first critical-then-high keyword it contains and inserts one
\* trending_issue alert for each group of at least threshold items, high
\* when the group has at least twice the threshold and medium otherwise, and
\* none for a smaller group; with fewer than threshold items in the window
\* it returns the empty list.
C29_TrendingGroups ==
    [][C29Call =>
          /\ SubSeq(alerts', 1, Len(alerts)) = alerts
          /\ \A r \in (Len(alerts) + 1)..Len(alerts') :
                /\ alerts'[r].alert_type = Some("trending_issue")
                /\ \E k \in DOMAIN C29Keywords : r \in C29Inserted(k)
          /\ \A k \in DOMAIN C29Keywords :
                LET size == Cardinality(C29Group(k))
                IN  /\ Cardinality(C29Inserted(k))
                          = (IF size >= TrendingThreshold THEN 1 ELSE 0)
                    /\ \A r \in C29Inserted(k) :
                          /\ alerts'[r].metadata[2] = size
                          /\ alerts'[r].severity
                                = (IF size >= 2 * TrendingThreshold THEN "high" ELSE "medium")
          /\ Len(alertResp'.returned) = Len(alerts') - Len(alerts)
          /\ Cardinality(C29Recent) < TrendingThreshold => alertResp'.returned = <<>>]_vars

\* Five items of the window, four of them with a keyword of each tier and
\* grouped under the critical one, one under another keyword: the check
\* returned one alert, of severity high.
C29_Witness ==
    /\ alertResp.op = "trending"
    /\ Cardinality(C29Recent) = 5
    /\ Cardinality({i \in C29Recent : feedback[i].text = TextMixed}) = 4
    /\ Cardinality({i \in C29Recent : feedback[i].text = TextCollapse}) = 1
    /\ Len(alertResp.returned) = 1
    /\ alerts[Len(alerts)].id = alertResp.returned[1]
    /\ alerts[Len(alerts)].alert_type = Some("trending_issue")
    /\ alerts[Len(alerts)].metadata = <<"fire", 4>>
    /\ alerts[Len(alerts)].severity = "high"
    /\ alerts[Len(alerts)].created_at = now

(***************************************************************************)
(* Claims about the hashtag intelligence                                   *)
(***************************************************************************)
\* The occurrences of a hashtag in the items: item and position.
C30Occurrences(items, tag) ==
    {<<i, k>> \in UNION {{<<i, k>> : k \in DOMAIN items[i].text.tags} : i \in DOMAIN items} :
        items[i].text.tags[k] = tag}

\* The sources of the items that carry the hashtag.
C30Sources(items, tag) == {items[occ[1]].source : occ \in C30Occurrences(items, tag)}

\* The hashtags that occur at least three times.
C30Frequent(items) ==
    {tag \in UNION {{items[i].text.tags[k] : k \in DOMAIN items[i].text.tags} :
                        i \in DOMAIN items} :
        Cardinality(C30Occurrences(items, tag)) >= 3}

\* result.get("top_hashtag")
C30Top(h) == IF "top_hashtag" \in DOMAIN h THEN h.top_hashtag ELSE None

\* C30: the trending hashtags of _analyze_hashtag_intelligence are hashtags
\* that occur at least three times, counted per occurrence, each once, with
\* growth_score = count x number of distinct sources; the list is sorted by
\* non-increasing growth_score and holds every such hashtag, or the 50 of
\* them that the sort puts first; top_hashtag is its first entry, or None
\* when it is empty.
C30_Hashtags ==
    analysis # NoAnalysis =>
        LET a == analysis[1]
            h == LastOut.hashtag_intel
            list == h.trending_hashtags
            frequent == C30Frequent(a.items)
            listed == {list[k].hashtag : k \in DOMAIN list}
        IN  /\ C30Top(h) = (IF list = <<>> THEN None ELSE Some(list[1]))
            /\ "hashtag_intelligence" \notin a.failing =>
                  /\ \A k \in DOMAIN list :
                        /\ list[k].hashtag \in frequent
                        /\ list[k].count = Cardinality(C30Occurrences(a.items, list[k].hashtag))
                        /\ list[k].count >= 3
                        /\ list[k].growth_score
                              = list[k].count
                                  * Cardinality(C30Sources(a.items, list[k].hashtag))
                        /\ \A j \in DOMAIN list : list[j].hashtag = list[k].hashtag => j = k
                        /\ k > 1 => list[k - 1].growth_score >= list[k].growth_score
                  /\ Len(list) <= 50
                  /\ Len(list) = (IF Cardinality(frequent) > 50 THEN 50
                                  ELSE Cardinality(frequent))
                  /\ \A tag \in frequent \ listed :
                        \A k \in DOMAIN list :
                           list[k].growth_score
                              >= Cardinality(C30Occurrences(a.items, tag))
                                    * Cardinality(C30Sources(a.items, tag))

\* On the window with 51 frequent hashtags the list holds 50: the hashtag
\* that came last, with a higher growth score, is the top one and the
\* fiftieth in order of appearance is cut.
C30_Witness ==
    /\ analysis # NoAnalysis
    /\ analysis[1].items = SnapBabel /\ analysis[1].failing = {}
    /\ Cardinality(C30Frequent(SnapBabel)) = 51
    /\ Len(LastOut.hashtag_intel.trending_hashtags) = 50
    /\ LastOut.hashtag_intel.top_hashtag
          = Some([hashtag |-> "#t51", count |-> 4, growth_score |-> 8])
    /\ \A k \in 1..50 : LastOut.hashtag_intel.trending_hashtags[k].hashtag # "#t50"

====
